---------------------------- MODULE Spec2Model ----------------------------
(***************************************************************************)
(* A model of gomemcached: the bounded connection pool (package pool) and  *)
(* the single-key request path of the client (package memcached).          *)
(*                                                                         *)
(* Goroutines are the elements of Threads.  Every access to shared state   *)
(* (a channel operation, a semaphore operation, a map access under its     *)
(* mutex) is one step; pc[t] is the position of goroutine t inside a pool  *)
(* method and cpc[t] its position inside a client method.                  *)
(***************************************************************************)
EXTENDS Integers, Sequences, FiniteSets, TLC

\* ------------------------------------------------------------------ bounds
NumThreads == 2      \* goroutines
MaxCap     == 2      \* largest pool capacity (maxCap) explored
MaxConns   == 2      \* connections the constructor may create in one run
NumPools   == 2      \* pool objects that may be allocated in one run
MaxKeys    == 2      \* keys in the arguments of one batch operation
MaxChanges == 1      \* changes of the reachability of endpoints in one run
RingReplicas == 2    \* h.replicas: virtual replicas of a node of full weight
MaxHash    == 1      \* greatest value of the hash function
MaxLookupKeys == 1   \* keys looked up on the ring
MaxServers == 3      \* servers in the list of the configuration
MaxField   == 1      \* bytes of the extras, the key and the body of a frame
Weights == {50, 100}  \* weights given to AddWithWeight

Threads == 1..NumThreads
Conns   == 1..MaxConns
Pools   == 1..NumPools
Nodes   == {"n1", "n2"}

NoConn == 0          \* a nil connection
NoPool == 0          \* no pool registered for an address
NoNode == "none"     \* the address of a connection of the pool's own tests

\* ------------------------------------------------------- program constants
MaxKeyLen       == 250
token           == 1
TopWeight       == 100
MaxBodyLen      == 22000000
HDR_LEN         == 24
REQ_MAGIC       == 128
RES_MAGIC       == 129
DefaultRetryCountForConn == 3
DefaultOfNumberConnsToDestroyPerRBPeriod == 1
SUCCESS         == 0
KEY_ENOENT      == 1
KEY_EEXISTS     == 2
E2BIG           == 3
EINVAL          == 4
NOT_STORED      == 5
DELTA_BADVAL    == 6
AUTHFAIL        == 32
FURTHER_AUTH    == 33
UNKNOWN_COMMAND == 129
ENOMEM          == 130
TMPFAIL         == 134
UNKNOWN_STATUS  == 65535

\* The statuses a server may answer with; 7 stands for a status the client
\* has no name for.
Statuses == {SUCCESS, KEY_ENOENT, KEY_EEXISTS, E2BIG, EINVAL, NOT_STORED,
             DELTA_BADVAL, AUTHFAIL, FURTHER_AUTH, UNKNOWN_COMMAND, ENOMEM,
             TMPFAIL, 7}

VARIABLES
    \* ---- pool.Pool, one per pool object
    maxCap,       \* [Pools -> 0..MaxCap]  capacity (0: not allocated)
    permits,      \* [Pools -> Int]        sema: size - cur
    store,        \* [Pools -> Seq(Conns)] content of the buffered channel
    storeOpen,    \* [Pools -> BOOLEAN]    channel store is not closed
    storeClose,   \* [Pools -> BOOLEAN]    channel storeClose is closed
    hasNewConn,   \* [Pools -> BOOLEAN]    newConn # nil
    dialAddr,     \* [Pools -> Nodes \cup {NoNode}] address newConn dials
    \* ---- connections
    conn,         \* [Conns -> [st, healthy, nClose, addr]]
    nextConn,     \* next connection the constructor returns
    \* ---- goroutines inside a pool method
    pc,           \* [Threads -> position]
    tp,           \* [Threads -> Pools]  receiver p of the method
    arg,          \* [Threads -> Conns \cup {NoConn}]  parameter / loop variable v
    aqTimeout,    \* [Threads -> BOOLEAN] local of Get
    ret,          \* [Threads -> result of the method that just returned]
    \* ---- callers of the pool in the pool's own tests
    out,          \* connections callers hold (got and neither Put nor Closed)
    \* ---- memcached.Client
    freeConns,    \* [Nodes -> Pools \cup {NoPool}]
    nextPool,     \* next pool object pool.New returns
    maxIdleConns, \* configured capacity of every pool of the client
    fault,        \* the one way an exchange with the server fails, if it fails
    cpc,          \* [Threads -> position in a Client method]
    cn,           \* [Threads -> Conns \cup {NoConn}] local cn
    err,          \* [Threads -> error] named result err
    \* ---- public operations of the Client
    ring,         \* members of the hash ring c.hr
    call,         \* the public operation in progress: [op, keys, phase, err, nodes]
    \* ---- SASL and the streams of the connections
    authEnable,   \* the client has credentials
    authBig,      \* an authentication request is larger than the write buffer
    authed,       \* [Conns -> BOOLEAN] conn.authed
    wbuf,         \* [Conns -> Seq] requests in the buffered writer wrtBuf
    srvIn,        \* [Conns -> Seq] requests the server received and did not answer
    srvOut,       \* [Conns -> Seq] responses the client has not read
    \* ---- batch operations
    task,         \* [Threads -> the partition the goroutine works on]
    retMap,       \* MultiGet's map ret
    singleError,  \* MultiGet's singleError
    multiErr,     \* the errors joined into multiErr
    errFlushAll,  \* FlushAll's named result err, which its goroutines share
    answered,     \* history: the responses the server has sent to key requests
    \* ---- nodes provider
    servers,      \* the list getNodes returns (cfg.Servers, or the looked-up addresses)
    reach,        \* [Nodes -> how a dial of the endpoint ends]
    changes,      \* how many times the reachability of an endpoint has changed
    deadNodes,    \* c.deadNodes
    hc,           \* the health-check loop: position and locals of checkNodesHealth
    rb,           \* the rebuild loop: position and locals of rebuildNodes
    ctxDone,      \* c.ctx is cancelled
    dialled,      \* history: the addresses checkNodesHealth has dialled in its current run
    started,      \* history: the ticks each loop has started with c.ctx cancelled
    \* ---- consistenthash.HashRing
    hashRing,     \* c.hr: [replicas, keys, ring, nodes]
    hashFunc,     \* h.hashFunc: [HashArgs -> Hashes]
    cfgServers,   \* cfg.Servers as listed, once newFromConfig has run
    \* ---- Request / Response frames
    codec,        \* a frame encoded or written by a peer, and what Receive made of it
    \* ---- locks
    lockSt,       \* who holds h.lock, c.fmu and c.dmu; the lock operations ahead of each goroutine
    \* ---- opaque counter
    opaque,       \* *c.opaque, the callers inside getOpaque, and the values a batch drew
    \* ---- liveness probe
    probe,        \* [Threads -> a call of nodeIsDead: its node, dials, countRetry, result]
    \* ---- pool refresh
    disableRefreshConns,  \* c.disableRefreshConns
    refreshed     \* the last call of CloseAvailableConnsInAllShardPools: numOfClose and its result

poolVars   == <<maxCap, permits, store, storeOpen, storeClose, hasNewConn, dialAddr>>
connVars   == <<conn, nextConn>>
threadVars == <<pc, tp, arg, aqTimeout, ret>>
wireVars   == <<wbuf, srvIn, srvOut>>
sessVars   == <<authEnable, authBig, authed, wireVars>>
batchVars  == <<task, retMap, singleError, multiErr, errFlushAll, answered>>
nodeVars   == <<servers, reach, changes, deadNodes, hc, rb, ctxDone, dialled, started>>
hashVars   == <<hashRing, hashFunc, cfgServers>>
auxVars    == <<lockSt, opaque, probe, disableRefreshConns, refreshed>>
hrVars     == <<ring, nodeVars, hashVars, codec, auxVars>>
opVars     == <<hrVars, call, sessVars, batchVars>>
clientVars == <<freeConns, nextPool, maxIdleConns, fault, cpc, cn, err, opVars>>
vars == <<poolVars, connVars, threadVars, out, clientVars>>

\* ------------------------------------------------------------------ errors
NoResp == -1
Err(kind, resp) == [kind |-> kind, resp |-> resp]
NilErr == Err("nil", NoResp)
NoFault == <<"none", NoResp>>

\* No public operation is in progress.
NoCall == [op |-> "none", keys |-> <<>>, phase |-> "none", err |-> "nil", nodes |-> <<>>]

\* A goroutine that works on no partition of a batch operation.
NoTask == [node |-> "none", i |-> 0, idToKey |-> <<>>, opaqueNOOP |-> <<>>,
           res |-> [status |-> NoResp, body |-> <<>>]]

\* The nil *Response.
NilRes == NoTask.res

NoRet == [v |-> NoConn, e |-> "none", ok |-> FALSE]
Result(v, e, ok) == [v |-> v, e |-> e, ok |-> ok]

\* A connection that was never created.  The field pool is not a field of
\* the source's conn (which has the client c and the address addr, and no
\* reference to its pool): it records the pool whose constructor created
\* the connection.
NoConnRec == [st |-> "none", healthy |-> FALSE, nClose |-> 0, addr |-> NoNode,
              pool |-> NoPool]

\* ------------------------------------------------------------ pool helpers
\* isClosed: a non-blocking receive on storeClose.
isClosed(p) == storeClose[p]

\* Goroutine t returns from its pool method with result r.
Return(t, r) ==
    /\ pc' = [pc EXCEPT ![t] = "ret"]
    /\ ret' = [ret EXCEPT ![t] = r]
    /\ arg' = [arg EXCEPT ![t] = NoConn]
    /\ aqTimeout' = [aqTimeout EXCEPT ![t] = FALSE]

\* Goroutine t panics; the panic is recovered at the top of the goroutine,
\* which does nothing more.
Panic(t, msg) ==
    /\ pc' = [pc EXCEPT ![t] = "panic"]
    /\ ret' = [ret EXCEPT ![t] = Result(NoConn, msg, FALSE)]
    /\ arg' = [arg EXCEPT ![t] = NoConn]
    /\ aqTimeout' = [aqTimeout EXCEPT ![t] = FALSE]

Goto(t, l) ==
    /\ pc' = [pc EXCEPT ![t] = l]
    /\ UNCHANGED <<ret, arg, aqTimeout>>

\* Goroutine t goes on at position l with its local v set to the connection c.
GotoWith(t, l, c) ==
    /\ pc' = [pc EXCEPT ![t] = l]
    /\ arg' = [arg EXCEPT ![t] = c]
    /\ UNCHANGED <<ret, aqTimeout>>

\* Goroutine t of Get goes back to its select after the wait timed out.
GotoTimedOut(t, l) ==
    /\ pc' = [pc EXCEPT ![t] = l]
    /\ aqTimeout' = [aqTimeout EXCEPT ![t] = TRUE]
    /\ UNCHANGED <<ret, arg>>

\* sema.Release(token): the semaphore panics when more is released than held.
SemaRelease(p) == permits' = [permits EXCEPT ![p] = @ + token]

SemaOverReleased(p) == permits[p] + token > maxCap[p]

\* closeConn(v): the destructor closes the connection's stream.
closeConn(c) ==
    conn' = [conn EXCEPT ![c].st = "closed", ![c].nClose = @ + 1]

\* newConn() of pool p succeeded: the connection the constructor returns.
newConnOk(c, p) ==
    /\ conn' = [conn EXCEPT ![c] = [st |-> "open", healthy |-> TRUE, nClose |-> 0,
                                    addr |-> dialAddr[p], pool |-> p]]
    /\ nextConn' = nextConn + 1

\* --------------------------------------------------------------- Pool.Get
\* Get_select that takes the receive from the closed, drained store as not
\* ready and falls to the default case.
Get_select_closedNotReady(t) ==
    LET p == tp[t] IN
    /\ pc[t] = "Get_select"
    /\ IF Len(store[p]) > 0
       THEN /\ store' = [store EXCEPT ![p] = Tail(@)]
            /\ Return(t, Result(Head(store[p]), "nil", TRUE))
       ELSE /\ UNCHANGED store
            /\ IF aqTimeout[t]
               THEN Return(t, Result(NoConn, "ErrAcquireTimeout", FALSE))
               ELSE Goto(t, "Get_acquire")
    /\ UNCHANGED <<maxCap, permits, storeOpen, storeClose, hasNewConn, dialAddr, connVars,
                   tp, out, clientVars>>

\* select { case v, ok := <-p.store: ...; default: ... }
Get_select(t) ==
    LET p == tp[t] IN
    /\ pc[t] = "Get_select"
    /\ IF Len(store[p]) > 0
       THEN /\ store' = [store EXCEPT ![p] = Tail(@)]
            /\ Return(t, Result(Head(store[p]), "nil", TRUE))
       ELSE /\ UNCHANGED store
            /\ IF ~storeOpen[p]
               THEN Return(t, Result(NoConn, "ErrClosedPool", FALSE))
               ELSE IF aqTimeout[t]
                    THEN Return(t, Result(NoConn, "ErrAcquireTimeout", FALSE))
                    ELSE Goto(t, "Get_acquire")
    /\ UNCHANGED <<maxCap, permits, storeOpen, storeClose, hasNewConn, dialAddr, connVars,
                   tp, out, clientVars>>

\* Get_acquire with the semaphore's limit lost: a permit is handed out even
\* when none is free.
Get_acquire_unlimited(t) ==
    LET p == tp[t] IN
    /\ pc[t] = "Get_acquire"
    /\ permits' = [permits EXCEPT ![p] = @ - token]
    /\ Goto(t, "Get_check")
    /\ UNCHANGED <<maxCap, store, storeOpen, storeClose, hasNewConn, dialAddr, connVars,
                   tp, out, clientVars>>

\* create: p.sema.Acquire(ctx, token) got a permit.
Get_acquire(t) ==
    LET p == tp[t] IN
    /\ pc[t] = "Get_acquire"
    /\ permits[p] >= token
    /\ permits' = [permits EXCEPT ![p] = @ - token]
    /\ Goto(t, "Get_check")
    /\ UNCHANGED <<maxCap, store, storeOpen, storeClose, hasNewConn, dialAddr, connVars,
                   tp, out, clientVars>>

\* Get_timeout with a wait that gives up although a permit is free.
Get_timeout_early(t) ==
    LET p == tp[t] IN
    /\ pc[t] = "Get_acquire"
    /\ GotoTimedOut(t, "Get_select")
    /\ UNCHANGED <<poolVars, connVars, tp, out, clientVars>>

\* create: the context of sema.Acquire timed out while no permit was free;
\* Get sets aqTimeout and tries the store once more.
Get_timeout(t) ==
    LET p == tp[t] IN
    /\ pc[t] = "Get_acquire"
    /\ permits[p] < token
    /\ GotoTimedOut(t, "Get_select")
    /\ UNCHANGED <<poolVars, connVars, tp, out, clientVars>>

\* create: if p.isClosed() { p.sema.Release(token); return ErrClosedPool }
Get_check(t) ==
    LET p == tp[t] IN
    /\ pc[t] = "Get_check"
    /\ IF isClosed(p)
       THEN /\ SemaRelease(p)
            /\ Return(t, Result(NoConn, "ErrClosedPool", FALSE))
       ELSE /\ UNCHANGED permits
            /\ Goto(t, "Get_new")
    /\ UNCHANGED <<maxCap, store, storeOpen, storeClose, hasNewConn, dialAddr, connVars,
                   tp, out, clientVars>>

\* create: the nil check of newConn and the call of the constructor, which
\* succeeds (dialOk) or fails; after MaxConns connections every dial fails.
Get_new(t) ==
    LET p == tp[t] IN
    /\ pc[t] = "Get_new"
    /\ IF ~hasNewConn[p]
       THEN /\ Return(t, Result(NoConn, "ErrNewFuncNil", FALSE))
            /\ UNCHANGED <<permits, connVars>>
       ELSE \E dialOk \in BOOLEAN :
              IF dialOk
              THEN /\ nextConn <= MaxConns
                   /\ newConnOk(nextConn, p)
                   /\ Return(t, Result(nextConn, "nil", TRUE))
                   /\ UNCHANGED permits
              ELSE /\ SemaRelease(p)
                   /\ Return(t, Result(NoConn, "newConnErr", FALSE))
                   /\ UNCHANGED connVars
    /\ UNCHANGED <<maxCap, store, storeOpen, storeClose, hasNewConn, dialAddr,
                   tp, out, clientVars>>

\* --------------------------------------------------------------- Pool.Pop
Pop_check(t) ==
    /\ pc[t] = "Pop_check"
    /\ IF isClosed(tp[t])
       THEN Return(t, Result(NoConn, "nil", FALSE))
       ELSE Goto(t, "Pop_recv")
    /\ UNCHANGED <<poolVars, connVars, tp, out, clientVars>>

Pop_recv(t) ==
    LET p == tp[t] IN
    /\ pc[t] = "Pop_recv"
    /\ IF Len(store[p]) > 0
       THEN /\ store' = [store EXCEPT ![p] = Tail(@)]
            /\ Return(t, Result(Head(store[p]), "nil", TRUE))
       ELSE /\ UNCHANGED store
            /\ Return(t, Result(NoConn, "nil", FALSE))
    /\ UNCHANGED <<maxCap, permits, storeOpen, storeClose, hasNewConn, dialAddr, connVars,
                   tp, out, clientVars>>

\* --------------------------------------------------------------- Pool.Put
Put_check(t) ==
    /\ pc[t] = "Put_check"
    /\ IF isClosed(tp[t])
       THEN Return(t, Result(NoConn, "nil", FALSE))
       ELSE Goto(t, "Put_send")
    /\ UNCHANGED <<poolVars, connVars, tp, out, clientVars>>

\* The send of Put on channel store with capacity cap: enqueue, or drop when
\* the buffer is full.
SendOrDrop(q, cap, v) == IF Len(q) < cap THEN Append(q, v) ELSE q

\* select { case p.store <- v: default: }; a send on a closed channel panics.
Put_send(t) ==
    LET p == tp[t] IN
    /\ pc[t] = "Put_send"
    /\ IF ~storeOpen[p]
       THEN /\ Panic(t, "send on closed channel")
            /\ UNCHANGED store
       ELSE /\ store' = [store EXCEPT ![p] = SendOrDrop(@, maxCap[p], arg[t])]
            /\ Return(t, Result(NoConn, "nil", Len(store[p]) < maxCap[p]))
    /\ UNCHANGED <<maxCap, permits, storeOpen, storeClose, hasNewConn, dialAddr, connVars,
                   tp, out, clientVars>>

\* ------------------------------------------------------------- Pool.close
\* p.sema.Release(token), at position at; then the destructor at position nxt.
close_release(t, at, nxt) ==
    LET p == tp[t] IN
    /\ pc[t] = at
    /\ IF SemaOverReleased(p)
       THEN /\ Panic(t, "semaphore: released more than held")
            /\ UNCHANGED permits
       ELSE /\ SemaRelease(p)
            /\ Goto(t, nxt)
    /\ UNCHANGED <<maxCap, store, storeOpen, storeClose, hasNewConn, dialAddr, connVars,
                   tp, out, clientVars>>

\* p.closeConn(v), at position at; then position nxt ("ret": the method returns).
close_closeConn(t, at, nxt) ==
    /\ pc[t] = at
    /\ closeConn(arg[t])
    /\ IF nxt = "ret"
       THEN Return(t, Result(NoConn, "nil", TRUE))
       ELSE Goto(t, nxt)
    /\ UNCHANGED <<poolVars, nextConn, tp, out, clientVars>>

\* ------------------------------------------------------------- Pool.Close
Close_release(t) == close_release(t, "Close_release", "Close_closeConn")

Close_closeConn(t) == close_closeConn(t, "Close_closeConn", "ret")

\* ----------------------------------------------------------- Pool.Destroy
Destroy_check(t) ==
    /\ pc[t] = "Destroy_check"
    /\ IF isClosed(tp[t])
       THEN Return(t, Result(NoConn, "nil", FALSE))
       ELSE Goto(t, "Destroy_closeFlag")
    /\ UNCHANGED <<poolVars, connVars, tp, out, clientVars>>

\* close(p.storeClose); closing a closed channel panics.
Destroy_closeFlag(t) ==
    LET p == tp[t] IN
    /\ pc[t] = "Destroy_closeFlag"
    /\ IF storeClose[p]
       THEN /\ Panic(t, "close of closed channel")
            /\ UNCHANGED storeClose
       ELSE /\ storeClose' = [storeClose EXCEPT ![p] = TRUE]
            /\ Goto(t, "Destroy_closeStore")
    /\ UNCHANGED <<maxCap, permits, store, storeOpen, hasNewConn, dialAddr, connVars,
                   tp, out, clientVars>>

\* close(p.store)
Destroy_closeStore(t) ==
    LET p == tp[t] IN
    /\ pc[t] = "Destroy_closeStore"
    /\ IF ~storeOpen[p]
       THEN /\ Panic(t, "close of closed channel")
            /\ UNCHANGED storeOpen
       ELSE /\ storeOpen' = [storeOpen EXCEPT ![p] = FALSE]
            /\ Goto(t, "Destroy_range")
    /\ UNCHANGED <<maxCap, permits, store, storeClose, hasNewConn, dialAddr, connVars,
                   tp, out, clientVars>>

\* for v := range p.store: receive the next buffered value, or leave the loop
\* when the closed channel is drained.
Destroy_range(t) ==
    LET p == tp[t] IN
    /\ pc[t] = "Destroy_range"
    /\ IF Len(store[p]) > 0
       THEN /\ store' = [store EXCEPT ![p] = Tail(@)]
            /\ GotoWith(t, "Destroy_release", Head(store[p]))
       ELSE /\ UNCHANGED store
            /\ Return(t, Result(NoConn, "nil", TRUE))
    /\ UNCHANGED <<maxCap, permits, storeOpen, storeClose, hasNewConn, dialAddr, connVars,
                   tp, out, clientVars>>

\* p.close(v) in the loop of Destroy
Destroy_release(t) == close_release(t, "Destroy_release", "Destroy_closeConn")

Destroy_closeConn(t) == close_closeConn(t, "Destroy_closeConn", "Destroy_range")

\* One step of goroutine t inside a pool method.
PoolStep(t) ==
    \/ Get_select(t)
    \/ Get_acquire(t)
    \/ Get_timeout(t)
    \/ Get_check(t)
    \/ Get_new(t)
    \/ Pop_check(t)
    \/ Pop_recv(t)
    \/ Put_check(t)
    \/ Put_send(t)
    \/ Close_release(t)
    \/ Close_closeConn(t)
    \/ Destroy_check(t)
    \/ Destroy_closeFlag(t)
    \/ Destroy_closeStore(t)
    \/ Destroy_range(t)
    \/ Destroy_release(t)
    \/ Destroy_closeConn(t)

\* ------------------------------------------------- callers of one pool
\* The goroutines of the pool's tests: each calls Get, Pop, Put, Close and
\* Destroy on pool 1 in any order; Put and Close are given a connection a
\* caller holds, which the caller then no longer holds.
Call(t, l, v) ==
    /\ pc[t] = "idle"
    /\ cpc[t] = "test"
    /\ pc' = [pc EXCEPT ![t] = l]
    /\ arg' = [arg EXCEPT ![t] = v]
    /\ aqTimeout' = [aqTimeout EXCEPT ![t] = FALSE]
    /\ UNCHANGED <<poolVars, connVars, tp, ret, clientVars>>

CallGet(t) == Call(t, "Get_select", NoConn) /\ UNCHANGED out

CallPop(t) == Call(t, "Pop_check", NoConn) /\ UNCHANGED out

CallPut(t) == \E c \in out : Call(t, "Put_check", c) /\ out' = out \ {c}

CallClose(t) == \E c \in out : Call(t, "Close_release", c) /\ out' = out \ {c}

CallDestroy(t) == Call(t, "Destroy_check", NoConn) /\ UNCHANGED out

\* The method returns to its caller, who keeps the connection it got.
CallReturn(t) ==
    /\ pc[t] = "ret"
    /\ cpc[t] = "test"
    /\ pc' = [pc EXCEPT ![t] = "idle"]
    /\ ret' = [ret EXCEPT ![t] = NoRet]
    /\ out' = IF ret[t].v # NoConn THEN out \cup {ret[t].v} ELSE out
    /\ UNCHANGED <<poolVars, connVars, tp, arg, aqTimeout, clientVars>>

\* pool.New(ctx, cap, timeout, newFunc, closeFunc) with cap > 0.
PoolNew(cap, newFuncSet) ==
    /\ maxCap = [p \in Pools |-> IF p = 1 THEN cap ELSE 0]
    /\ permits = [p \in Pools |-> IF p = 1 THEN cap ELSE 0]
    /\ store = [p \in Pools |-> <<>>]
    /\ storeOpen = [p \in Pools |-> TRUE]
    /\ storeClose = [p \in Pools |-> FALSE]
    /\ hasNewConn = [p \in Pools |-> newFuncSet]
    /\ dialAddr = [p \in Pools |-> NoNode]

\* No loop of the nodes provider runs (WithDisableNodeProvider).
HCIdle == [pc |-> "idle", err |-> "nil", currentNodes |-> {}, deadNodes |-> {},
           ringNodes |-> {}, todo |-> {}]
RBIdle == [pc |-> "idle", err |-> "nil", currentNodes |-> {}, nodesToAdd |-> {},
           nodesToRemove |-> {}]

ProviderInit ==
    /\ servers = {}
    /\ reach = [n \in Nodes |-> "ok"]
    /\ changes = 0
    /\ deadNodes = {}
    /\ hc = HCIdle
    /\ rb = RBIdle
    /\ ctxDone = FALSE
    /\ dialled = {}
    /\ started = [hc |-> 0, rb |-> 0]

\* Frames of the binary protocol: a byte string is [b, z], the bytes b followed
\* by z zero bytes; a 64-bit CAS is the pair of its high and low 32-bit words.
Bs(q) == [b |-> q, z |-> 0]
ZeroCas == <<0, 0>>

\* A Request{} or Response{} with no field set (Status is 0 in a Request).
NoFrame ==
    [Opcode |-> 0, Status |-> 0, Opaque |-> 0, Cas |-> ZeroCas,
     Extras |-> <<>>, Key |-> <<>>, Body |-> Bs(<<>>)]

\* What Receive gives: the bytes read, the error ("panic" for a run-time
\* panic, when nothing is returned) and the receiver afterwards.
Received(n, e, r) == [n |-> n, err |-> e, r |-> r]

\* No frame encoded or decoded yet.
NoCodec == [op |-> "none", sent |-> NoFrame, wire |-> Bs(<<>>), got |-> Received(0, "nil", NoFrame)]

\* The hash ring's placement is left out: `ring` holds its members.
HashRingInit ==
    /\ hashRing = [replicas |-> 0, keys |-> <<>>, ring |-> <<>>, nodes |-> {}]
    /\ hashFunc = <<>>
    /\ cfgServers = <<>>

NoGoroutine == "none"

\* No goroutine holds a lock or is about to ask for one.
LockInit ==
    /\ lockSt = [held |-> [l \in {"hr", "fmu", "dmu"} |-> [w |-> NoGoroutine, r |-> {}]],
                 todo |-> [g \in {"user", "closer", "hc", "hcg", "rb"} |-> <<>>]]

\* The width of the opaque counter: 32 bits in the source, scaled down.
OpaqueBits == 3

\* A new client: *c.opaque is 0 and no goroutine is inside getOpaque.
NoOpaque == [ctr |-> 0, pc |-> [g \in Threads |-> "idle"], batch |-> <<>>, drawn |-> 0,
             last |-> 0]
OpaqueInit == opaque = NoOpaque

\* No call of nodeIsDead.
NoProbe == [pc |-> "idle", node |-> "none", countRetry |-> 0, dials |-> <<>>,
            closes |-> 0, dead |-> FALSE]
ProbeInit == probe = [g \in Threads |-> NoProbe]

\* The default options: the pools are refreshed; no call yet.
NoRefresh == [pc |-> "idle", numOfClose |-> 0, closed |-> 0]
RefreshInit == disableRefreshConns = FALSE /\ refreshed = NoRefresh

AuxInit == LockInit /\ OpaqueInit /\ ProbeInit /\ RefreshInit

NodesInit == ProviderInit /\ HashRingInit /\ codec = NoCodec /\ AuxInit

\* No batch operation has run.
BatchInit ==
    /\ task = [t \in Threads |-> NoTask]
    /\ retMap = <<>>
    /\ singleError = NilErr
    /\ multiErr = {}
    /\ errFlushAll = [e |-> NilErr, what |-> NoNode]
    /\ answered = {}

ThreadInit(where) ==
    /\ pc = [t \in Threads |-> "idle"]
    /\ tp = [t \in Threads |-> 1]
    /\ arg = [t \in Threads |-> NoConn]
    /\ aqTimeout = [t \in Threads |-> FALSE]
    /\ ret = [t \in Threads |-> NoRet]
    /\ cpc = [t \in Threads |-> where]
    /\ cn = [t \in Threads |-> NoConn]
    /\ err = [t \in Threads |-> NilErr]

Init ==
    /\ \E cap \in 1..MaxCap, newFuncSet \in BOOLEAN : PoolNew(cap, newFuncSet)
    /\ conn = [c \in Conns |-> NoConnRec]
    /\ nextConn = 1
    /\ ThreadInit("test")
    /\ out = {}
    /\ freeConns = [n \in Nodes |-> 1]
    /\ nextPool = 2
    /\ maxIdleConns = maxCap[1]
    /\ fault = NoFault
    /\ ring = {}
    /\ call = NoCall
    /\ authEnable = FALSE
    /\ authBig = FALSE
    /\ authed = [c \in Conns |-> FALSE]
    /\ wbuf = [c \in Conns |-> <<>>]
    /\ srvIn = [c \in Conns |-> <<>>]
    /\ srvOut = [c \in Conns |-> <<>>]
    /\ BatchInit
    /\ NodesInit

Next ==
    \E t \in Threads :
        \/ PoolStep(t)
        \/ CallGet(t)
        \/ CallPop(t)
        \/ CallPut(t)
        \/ CallClose(t)
        \/ CallDestroy(t)
        \/ CallReturn(t)

Spec == Init /\ [][Next]_vars

\* =================================================================== client
\* wrapMemcachedResp: the error a response's status is wrapped into.
wrapMemcachedResp(status) ==
    CASE status = SUCCESS -> NilErr
      [] status = KEY_ENOENT -> Err("ErrCacheMiss", status)
      [] status \in {NOT_STORED, KEY_EEXISTS} -> Err("ErrNotStored", status)
      [] status \in {EINVAL, DELTA_BADVAL} -> Err("ErrInvalidArguments", status)
      [] status = ENOMEM -> Err("ErrServerError", status)
      [] status = TMPFAIL -> Err("ErrServerNotAvailable", status)
      [] status = UNKNOWN_COMMAND -> Err("ErrUnknownCommand", status)
      [] status = E2BIG -> Err("ErrDataSizeExceedsLimit", status)
      [] OTHER -> Err("ErrServerError", status)

\* errStatus: the status of the *Response in the error's chain, if any.
errStatus(e) == IF e.resp = NoResp THEN UNKNOWN_STATUS ELSE e.resp

\* isFatal: whether the error is believed fatal to the connection.
isFatal(e) ==
    IF e = NilErr
    THEN FALSE
    ELSE errStatus(e) \notin {KEY_ENOENT, KEY_EEXISTS, NOT_STORED, TMPFAIL, AUTHFAIL}

\* resumableError with every error taken as a protocol-level one.
resumableError_any(e) == e # NilErr

\* resumableError with ErrNotStored left out of the list.
resumableError_noNotStored(e) ==
    e.kind \in {"ErrCacheMiss", "ErrCASConflict", "ErrMalformedKey"}

\* resumableError: whether the error is only a protocol-level cache error.
resumableError(e) ==
    e.kind \in {"ErrCacheMiss", "ErrCASConflict", "ErrNotStored", "ErrMalformedKey"}

\* The results of reading one response: a read error, a header with a bad
\* magic byte, or a response with some status.
ReadOutcomes ==
    {<<"io", NoResp>>, <<"badmagic", NoResp>>} \cup {<<"resp", st>> : st \in Statuses}

\* getResponse: the error returned for a read outcome.
getResponseErr(o) ==
    IF o[1] = "resp" THEN wrapMemcachedResp(o[2]) ELSE Err(o[1], NoResp)

\* The outcomes of send: the write of the request fails, the flush of the
\* write buffer fails, or the response is read with some outcome.
SendOutcomes ==
    {<<"transmit", NoResp>>, <<"flush", NoResp>>} \cup ReadOutcomes

\* The failures of one exchange with a server: every outcome of send but a
\* SUCCESS response.
Faults == SendOutcomes \ {<<"resp", SUCCESS>>}

\* send: the error it returns for an outcome.
sendErr(o) ==
    IF o[1] \in {"transmit", "flush"} THEN Err("io", NoResp) ELSE getResponseErr(o)

\* send: cn.healthy after an outcome, h being its value before. A failed
\* write sets it to false, a failed flush leaves it, and after a read it is
\* !isFatal(err).
sendHealthy(o, h) ==
    CASE o[1] = "transmit" -> FALSE
      [] o[1] = "flush"    -> h
      [] OTHER             -> ~isFatal(getResponseErr(o))

\* condRelease's test with "or healthy" in place of "and healthy".
condReleaseTest_or(e, healthy) == (e = NilErr \/ resumableError(e)) \/ healthy

\* condRelease: release the connection (TRUE) or close it (FALSE).
condReleaseTest(e, healthy) == (e = NilErr \/ resumableError(e)) /\ healthy

\* Goroutine t of a client method calls method l of pool p with argument c.
PoolCall(t, p, l, c) ==
    /\ pc' = [pc EXCEPT ![t] = l]
    /\ tp' = [tp EXCEPT ![t] = p]
    /\ arg' = [arg EXCEPT ![t] = c]
    /\ aqTimeout' = [aqTimeout EXCEPT ![t] = FALSE]
    /\ UNCHANGED ret

\* The pool method goroutine t called has returned; t is back in the client.
PoolBack(t) ==
    /\ pc' = [pc EXCEPT ![t] = "idle"]
    /\ ret' = [ret EXCEPT ![t] = NoRet]
    /\ UNCHANGED <<tp, arg, aqTimeout>>

\* pool.New for address n in safeGetOrInitFreeConn: pool object p.
poolNewFor(p, n) ==
    /\ maxCap' = [maxCap EXCEPT ![p] = maxIdleConns]
    /\ permits' = [permits EXCEPT ![p] = maxIdleConns]
    /\ dialAddr' = [dialAddr EXCEPT ![p] = n]
    /\ freeConns' = [freeConns EXCEPT ![n] = p]
    /\ nextPool' = nextPool + 1
    /\ UNCHANGED <<store, storeOpen, storeClose, hasNewConn>>

\* A single-key operation (Get, Store, Delete, Delta, Append) has validated
\* its key and found node n on the ring: getConnForNode, getFreeConn and
\* safeGetOrInitFreeConn, which finds or creates the pool of n under fmu, and
\* then the call of connPool.Get.
SingleKey_getFreeConn(t) ==
    /\ cpc[t] = "idle"
    /\ pc[t] = "idle"
    /\ \E n \in ring :
         IF freeConns[n] # NoPool
         THEN /\ PoolCall(t, freeConns[n], "Get_select", NoConn)
              /\ UNCHANGED <<poolVars, freeConns, nextPool>>
         ELSE /\ nextPool <= NumPools
              /\ poolNewFor(nextPool, n)
              /\ PoolCall(t, nextPool, "Get_select", NoConn)
    /\ cpc' = [cpc EXCEPT ![t] = "getFreeConn"]
    /\ UNCHANGED <<connVars, out, maxIdleConns, fault, opVars, cn, err>>

\* getFreeConn after connPool.Get: the pool's error is wrapped and the
\* operation returns it to its caller, or the connection becomes cn and,
\* unless it has to authenticate first, send begins.
GetFreeConn_got(t) ==
    /\ cpc[t] = "getFreeConn"
    /\ pc[t] = "ret"
    /\ PoolBack(t)
    /\ IF ret[t].e # "nil"
       THEN /\ cpc' = [cpc EXCEPT ![t] = "idle"]
            /\ UNCHANGED <<cn, err>>
       ELSE /\ cn' = [cn EXCEPT ![t] = ret[t].v]
            /\ cpc' = [cpc EXCEPT ![t] = IF authEnable /\ ~authed[ret[t].v]
                                         THEN "auth_transmit" ELSE "send"]
            /\ UNCHANGED err
    /\ UNCHANGED <<poolVars, connVars, out, freeConns, nextPool, maxIdleConns, fault, opVars>>

\* send up to its deferred call: transmitRequest, wrtBuf.Flush and
\* getResponse on the connection the goroutine holds, with one of the
\* outcomes the server of this behaviour can produce.
send(t) ==
    /\ cpc[t] = "send"
    /\ \E o \in SendOutcomes \cap {<<"resp", SUCCESS>>, fault} :
         /\ err' = [err EXCEPT ![t] = sendErr(o)]
         /\ conn' = [conn EXCEPT ![cn[t]].healthy = sendHealthy(o, @)]
    /\ cpc' = [cpc EXCEPT ![t] = "condRelease"]
    /\ UNCHANGED <<poolVars, nextConn, threadVars, out, freeConns, nextPool,
                   maxIdleConns, fault, opVars, cn>>

\* rc.Close() on connection c, outside any pool.
rcClose(c) == conn' = [conn EXCEPT ![c].st = "closed", ![c].nClose = @ + 1]

\* The deferred cn.condRelease(&err): release (putFreeConn) or close, each
\* looking the pool of cn.addr up under fmu and calling its Put or Close, or
\* closing the stream when the address has no pool.
CondRelease(t) ==
    LET c == cn[t]
        p == freeConns[conn[c].addr]
    IN
    /\ cpc[t] = "condRelease"
    /\ IF p # NoPool
       THEN /\ IF condReleaseTest(err[t], conn[c].healthy)
               THEN /\ PoolCall(t, p, "Put_check", c)
                    /\ cpc' = [cpc EXCEPT ![t] = "release"]
               ELSE /\ PoolCall(t, p, "Close_release", c)
                    /\ cpc' = [cpc EXCEPT ![t] = "close"]
            /\ UNCHANGED conn
       ELSE /\ rcClose(c)
            /\ cpc' = [cpc EXCEPT ![t] = "closed"]
            /\ UNCHANGED threadVars
    /\ UNCHANGED <<poolVars, nextConn, out, freeConns, nextPool, maxIdleConns, fault, opVars, cn, err>>

\* Put or Close has returned, or the stream was closed: send, and with it
\* the operation, returns resp and err to the caller; the goroutine is free
\* for the next operation.
Send_return(t) ==
    /\ \/ cpc[t] \in {"release", "close"} /\ pc[t] = "ret" /\ PoolBack(t)
       \/ cpc[t] = "closed" /\ UNCHANGED threadVars
    /\ cpc' = [cpc EXCEPT ![t] = "idle"]
    /\ cn' = [cn EXCEPT ![t] = NoConn]
    /\ err' = [err EXCEPT ![t] = NilErr]
    /\ UNCHANGED <<poolVars, connVars, out, freeConns, nextPool, maxIdleConns, fault, opVars>>

ClientStep(t) ==
    \/ SingleKey_getFreeConn(t)
    \/ GetFreeConn_got(t)
    \/ send(t)
    \/ CondRelease(t)
    \/ Send_return(t)

\* A client of one server with an empty pool map and a configured capacity
\* per address.
\* The network and the server of a behaviour exhibit one kind of failure,
\* fault: every exchange either succeeds or fails in that way.
InitClient ==
    /\ maxCap = [p \in Pools |-> 0]
    /\ permits = [p \in Pools |-> 0]
    /\ store = [p \in Pools |-> <<>>]
    /\ storeOpen = [p \in Pools |-> TRUE]
    /\ storeClose = [p \in Pools |-> FALSE]
    /\ hasNewConn = [p \in Pools |-> TRUE]
    /\ dialAddr = [p \in Pools |-> NoNode]
    /\ conn = [c \in Conns |-> NoConnRec]
    /\ nextConn = 1
    /\ ThreadInit("idle")
    /\ out = {}
    /\ freeConns = [n \in Nodes |-> NoPool]
    /\ nextPool = 1
    /\ maxIdleConns \in 1..MaxCap
    /\ fault \in Faults
    /\ ring = {"n1"}
    /\ call = NoCall
    /\ authEnable = FALSE
    /\ authBig = FALSE
    /\ authed = [c \in Conns |-> FALSE]
    /\ wbuf = [c \in Conns |-> <<>>]
    /\ srvIn = [c \in Conns |-> <<>>]
    /\ srvOut = [c \in Conns |-> <<>>]
    /\ BatchInit
    /\ NodesInit

NextClient ==
    \E t \in Threads :
        \/ ClientStep(t)
        \/ Get_select(t)
        \/ Get_acquire(t)
        \/ Get_timeout(t)
        \/ Get_check(t)
        \/ Get_new(t)
        \/ Put_check(t)
        \/ Put_send(t)
        \/ Close_release(t)
        \/ Close_closeConn(t)

SpecClient == InitClient /\ [][NextClient]_vars

\* ===================================================================== pool
\* Connections whose Close has released their permit and whose destructor
\* has not run yet: Close counts them as closed.
Closing == {arg[t] : t \in {u \in Threads : pc[u] \in {"Close_closeConn", "Destroy_closeConn"}}}

\* Live connections: created, not closed; handed out or idle in a buffer.
Live == {c \in Conns : conn[c].st = "open"} \ Closing

Idle(p) == {store[p][i] : i \in 1..Len(store[p])}

\* Connections callers hold, those a returning Get or Pop carries included.
HandedOut == out \cup {ret[t].v : t \in {u \in Threads : pc[u] = "ret" /\ ret[u].v # NoConn}}

\* No goroutine is inside a pool method.
Quiescent == \A t \in Threads : pc[t] \in {"idle", "ret", "panic"}

\* Destroy has completed on pool p.
DestroyDone(p) ==
    /\ storeClose[p]
    /\ ~storeOpen[p]
    /\ store[p] = <<>>
    /\ \A t \in Threads :
         tp[t] = p => pc[t] \notin {"Destroy_closeStore", "Destroy_range",
                                    "Destroy_release", "Destroy_closeConn"}

\* Pool p is open, its buffer is empty and callers hold as many connections
\* as its capacity.
Full(p) ==
    /\ ~storeClose[p]
    /\ storeOpen[p]
    /\ store[p] = <<>>
    /\ Cardinality(HandedOut) = maxCap[p]

GetPcs == {"Get_select", "Get_acquire", "Get_check", "Get_new"}

\* Goroutine t returns from Get in this step.
GetReturns(t) == pc[t] \in GetPcs /\ pc'[t] = "ret"

\* C1: in every reachable state the number of live connections (handed out
\* and not closed, or idle in the buffer) is at most the pool's capacity.
C1_LiveWithinCapacity == Cardinality(Live) <= maxCap[1]

\* C1 witness: a pool of the largest capacity with as many live connections
\* as its capacity, one idle and one handed out.
C1_Witness ==
    /\ maxCap[1] = MaxCap
    /\ Cardinality(Live) = maxCap[1]
    /\ store[1] # <<>>
    /\ out # {}

\* C2 (as claimed): whenever no goroutine is inside a pool method, live
\* connections plus available permits equal the capacity.
C2_PermitAccounting == Quiescent => Cardinality(Live) + permits[1] = maxCap[1]

\* C3: once Destroy has completed, a Get returns ErrClosedPool and no
\* connection, a Pop returns (nil, false), a Put returns without enqueuing,
\* and the idle buffer stays empty.
C3_AfterDestroy ==
    [][DestroyDone(1) =>
         /\ store'[1] = <<>>
         /\ \A t \in Threads :
              /\ (pc[t] = "Get_select" /\ pc'[t] # "Get_select")
                   => (pc'[t] = "ret" /\ ret'[t] = Result(NoConn, "ErrClosedPool", FALSE))
              /\ (pc[t] = "Pop_check" /\ pc'[t] # "Pop_check")
                   => (pc'[t] = "ret" /\ ret'[t] = Result(NoConn, "nil", FALSE))
              /\ (pc[t] = "Put_check" /\ pc'[t] # "Put_check")
                   => pc'[t] = "ret"]_vars

\* C3 witness: Destroy has completed after closing an idle connection, and a
\* Get has returned ErrClosedPool.
C3_Witness ==
    /\ DestroyDone(1)
    /\ \E c \in Conns : conn[c].st = "closed"
    /\ \E t \in Threads : pc[t] = "ret" /\ ret[t] = Result(NoConn, "ErrClosedPool", FALSE)

\* C4: a Get that returns while the open pool is full (capacity connections
\* handed out, buffer empty) returns no connection and ErrAcquireTimeout; a
\* Get gives up waiting for a permit only while no permit is free, so with
\* fewer than capacity connections outstanding (a fresh pool, or after a
\* Close) it gets its permit.
C4_CapacityThenTimeout ==
    [][\A t \in Threads :
         /\ (Full(1) /\ GetReturns(t))
              => ret'[t] = Result(NoConn, "ErrAcquireTimeout", FALSE)
         /\ (pc[t] = "Get_acquire" /\ pc'[t] # "Get_acquire" /\ permits[1] > 0)
              => (pc'[t] = "Get_check" /\ permits'[1] = permits[1] - 1)
         /\ (GetReturns(t) /\ ret'[t].e = "ErrAcquireTimeout")
              => (ret'[t].v = NoConn /\ store[1] = <<>>)]_vars

\* C4 witness: the pool of the largest capacity is full and a further Get has
\* returned ErrAcquireTimeout.
C4_Witness ==
    /\ maxCap[1] = MaxCap
    /\ Full(1)
    /\ \E t \in Threads : pc[t] = "ret" /\ ret[t] = Result(NoConn, "ErrAcquireTimeout", FALSE)

\* C5 (as claimed): Put never sends on the closed buffer and never panics,
\* and the buffer of a closed pool never receives a connection.
C5_PutNeverPanics ==
    \A t \in Threads : ~(pc[t] = "panic" /\ ret[t].e = "send on closed channel")

\* C6 (as claimed): no Destroy panics or closes a channel twice, and no
\* connection is destroyed more than once.
C6_DestroyIdempotent ==
    /\ \A t \in Threads : ~(pc[t] = "panic" /\ ret[t].e = "close of closed channel")
    /\ \A c \in Conns : conn[c].nClose <= 1

\* C7 (as claimed): a Get that returns an error holds no permit afterwards:
\* if it had taken one it gives it back, and it has created no connection.
C7_FailedGetHoldsNoPermit ==
    [][\A t \in Threads :
         (GetReturns(t) /\ ret'[t].e # "nil")
            => /\ permits'[1] = permits[1] + (IF pc[t] \in {"Get_check", "Get_new"} THEN token ELSE 0)
               /\ connVars' = connVars]_vars

\* ============================================================ client claims
\* Goroutine t takes a step of its own.
Steps(t) == <<pc[t], cpc[t]>>' # <<pc[t], cpc[t]>>

\* The pool registered for the address of connection c.
PoolOf(c) == freeConns[conn[c].addr]

\* The deferred condRelease of goroutine t returns its connection to the
\* idle buffer of its pool: it calls Put, Put passes its check, its send
\* enqueues the connection, and neither a permit nor the connection changes.
ReleasedToPool(t) ==
    /\ (cpc[t] = "condRelease" /\ Steps(t))
         => /\ cpc'[t] = "release"
            /\ pc'[t] = "Put_check"
            /\ arg'[t] = cn[t]
            /\ tp'[t] = PoolOf(cn[t])
    /\ (cpc[t] = "release" /\ pc[t] = "Put_check" /\ Steps(t))
         => pc'[t] = "Put_send"
    /\ (cpc[t] = "release" /\ pc[t] = "Put_send" /\ Steps(t))
         => /\ pc'[t] = "ret"
            /\ store'[tp[t]] = Append(store[tp[t]], cn[t])
            /\ permits' = permits
            /\ conn' = conn
    /\ (cpc[t] \in {"condRelease", "release"} /\ cpc'[t] # "idle")
         => err'[t] = err[t]

\* The deferred condRelease of goroutine t destroys its connection: it calls
\* Close, which releases one permit of the pool and closes the connection,
\* for the first time; the connection is not enqueued.
DestroyedOnce(t) ==
    /\ (cpc[t] = "condRelease" /\ Steps(t))
         => /\ cpc'[t] = "close"
            /\ pc'[t] = "Close_release"
            /\ arg'[t] = cn[t]
            /\ tp'[t] = PoolOf(cn[t])
    /\ (cpc[t] = "close" /\ pc[t] = "Close_release" /\ Steps(t))
         => /\ pc'[t] = "Close_closeConn"
            /\ permits'[tp[t]] = permits[tp[t]] + 1
    /\ (cpc[t] = "close" /\ pc[t] = "Close_closeConn" /\ Steps(t))
         => /\ pc'[t] = "ret"
            /\ conn[cn[t]].st = "open"
            /\ conn'[cn[t]].st = "closed"
            /\ conn'[cn[t]].nClose = 1
    /\ (cpc[t] \in {"condRelease", "close"})
         => \A p \in Pools : cn[t] \notin {store'[p][i] : i \in 1..Len(store'[p])}
    /\ (cpc[t] \in {"condRelease", "close"} /\ cpc'[t] # "idle")
         => err'[t] = err[t]

\* C8: when the response status of a single-key operation is KEY_NOT_FOUND,
\* NOT_STORED or KEY_EXISTS, the error (cache miss, not stored) is returned
\* to the caller and the connection goes back to its pool's idle buffer: it
\* is not closed and its permit stays held.
C8_MissKeepsConn ==
    [][\A t \in Threads :
         err[t].resp \in {KEY_ENOENT, NOT_STORED, KEY_EEXISTS}
            => /\ ReleasedToPool(t)
               /\ err[t].kind = (IF err[t].resp = KEY_ENOENT THEN "ErrCacheMiss" ELSE "ErrNotStored")]_vars

\* C8 witness: an operation is returning ErrNotStored for status KEY_EXISTS,
\* its Put has returned, and its connection is open and idle in the buffer of
\* its pool.
C8_Witness ==
    \E t \in Threads :
        /\ cpc[t] = "release"
        /\ pc[t] = "ret"
        /\ err[t] = Err("ErrNotStored", KEY_EEXISTS)
        /\ conn[cn[t]].st = "open"
        /\ cn[t] \in Idle(PoolOf(cn[t]))

\* C9 (as claimed): when the response status is INVALID_ARGS,
\* DELTA_BAD_VALUE, VALUE_TOO_LARGE or TEMPORARY_FAIL, the connection is
\* returned to the pool and not destroyed.
C9_ResumableStatuses ==
    [][\A t \in Threads :
         err[t].resp \in {EINVAL, DELTA_BADVAL, E2BIG, TMPFAIL} => ReleasedToPool(t)]_vars

\* Errors that are fatal to the connection: a failed write, flush or read, a
\* bad magic byte, UNKNOWN_COMMAND, OUT_OF_MEMORY, or a status the client
\* does not classify.
FatalToConn(e) ==
    \/ e.kind \in {"io", "badmagic"}
    \/ e.resp \in {UNKNOWN_COMMAND, ENOMEM} \cup
                  (Statuses \ {SUCCESS, KEY_ENOENT, KEY_EEXISTS, E2BIG, EINVAL, NOT_STORED,
                               DELTA_BADVAL, UNKNOWN_COMMAND, ENOMEM, TMPFAIL})

\* C10: after a fatal error of a single-key operation the connection is never
\* put back into the idle buffer; it is closed exactly once and one permit of
\* its pool is released.
C10_FatalDestroysConn ==
    [][\A t \in Threads :
         (cpc[t] \in {"condRelease", "release", "close"} /\ FatalToConn(err[t]))
            => DestroyedOnce(t)]_vars

\* C10 witness: the flush of an operation failed and its Close has returned;
\* its connection is closed, once, and every permit of its pool is free again.
C10_Witness ==
    \E t \in Threads :
        /\ cpc[t] = "close"
        /\ pc[t] = "ret"
        /\ fault = <<"flush", NoResp>>
        /\ err[t] = Err("io", NoResp)
        /\ conn[cn[t]].healthy
        /\ conn[cn[t]].st = "closed"
        /\ conn[cn[t]].nClose = 1
        /\ permits[PoolOf(cn[t])] = maxCap[PoolOf(cn[t])]

\* ====================================================== public operations
\* Keys are sequences of bytes.  The keys operations are called with: legal
\* ones (among them one of the greatest legal length and ones with the
\* bytes next to the forbidden ones), and illegal ones (too long, with a
\* space, with a control byte, with DEL).
LongKey(n) == [i \in 1..n |-> 97]
LegalKeys == {<<97>>, <<98>>, <<33, 126>>, <<128, 255>>, LongKey(MaxKeyLen)}
IllegalKeys == {<<97, 32, 98>>, <<9>>, <<0, 97>>, <<97, 127>>, LongKey(MaxKeyLen + 1)}
KeyPool == LegalKeys \cup IllegalKeys

SingleKeyOps == {"Get", "Store", "Delete", "Delta", "Append"}
BatchOps == {"MultiGet", "MultiStore", "MultiDelete"}
Ops == SingleKeyOps \cup BatchOps

\* Sequences of at most n elements of S.
SeqUpTo(S, n) == UNION {[1..m -> S] : m \in 0..n}
NoDup(q) == \A i, j \in 1..Len(q) : q[i] = q[j] => i = j
Range(q) == {q[i] : i \in 1..Len(q)}

\* The key arguments an operation can be called with: one key, a slice of
\* keys (MultiGet, MultiDelete) or the keys of a map (MultiStore).
KeyArgs(op) ==
    CASE op \in SingleKeyOps -> {<<k>> : k \in KeyPool}
      [] op = "MultiStore"   -> {q \in SeqUpTo(KeyPool, MaxKeys) : NoDup(q)}
      [] OTHER               -> SeqUpTo(KeyPool, MaxKeys)

\* legalKey without its test for DEL.
legalKey_noDel(key) ==
    /\ ~(Len(key) > MaxKeyLen)
    /\ \A i \in 1..Len(key) : ~(key[i] <= 32)

\* legalKey
legalKey(key) ==
    /\ ~(Len(key) > MaxKeyLen)
    /\ \A i \in 1..Len(key) : ~(key[i] <= 32 \/ key[i] = 127)

\* maps of Go, as functions
EmptyMap == [x \in {} |-> <<>>]
MapGet(m, k) == IF k \in DOMAIN m THEN m[k] ELSE <<>>
MapPut(m, k, v) == [x \in DOMAIN m \cup {k} |-> IF x = k THEN v ELSE m[x]]

\* hr.Get(key): the owner of the key, own[key], among the members of the
\* ring, and none (found = false) when the ring has no member.
hrGet(r, own, key) == IF r = {} THEN NoNode ELSE own[key]

\* The owners hr.Get can give to a set of keys on ring r.
Owners(r, ks) == IF r = {} THEN {[k \in ks |-> NoNode]} ELSE [ks -> r]

\* getNodesForKeys: the loop over keys from index i with the map resp.
RECURSIVE getNodesForKeysFrom(_, _, _, _, _)
getNodesForKeysFrom(r, own, keys, i, resp) ==
    IF i > Len(keys) THEN [err |-> "nil", nodes |-> resp]
    ELSE IF ~legalKey(keys[i]) THEN [err |-> "ErrMalformedKey", nodes |-> EmptyMap]
    ELSE LET node == hrGet(r, own, keys[i]) IN
         IF node # NoNode
         THEN getNodesForKeysFrom(r, own, keys, i + 1,
                                  MapPut(resp, node, Append(MapGet(resp, node), keys[i])))
         ELSE getNodesForKeysFrom(r, own, keys, i + 1, resp)

getNodesForKeys(r, own, keys) == getNodesForKeysFrom(r, own, keys, 1, EmptyMap)

\* The head of Get, Store, Delete, Delta and Append: legalKey, then hr.Get.
singleKeyEntry(r, own, key) ==
    IF ~legalKey(key) THEN [err |-> "ErrMalformedKey", nodes |-> EmptyMap]
    ELSE IF hrGet(r, own, key) = NoNode THEN [err |-> "ErrNoServers", nodes |-> EmptyMap]
    ELSE [err |-> "nil", nodes |-> MapPut(EmptyMap, hrGet(r, own, key), <<key>>)]

\* The head of an operation up to the point where it asks for connections:
\* the error it returns at once, or the keys of every node it goes on with.
\* MultiGet of one key is Get; MultiGet of no key and the other batch
\* operations of no key return at once.
opEntry(op, r, own, keys) ==
    CASE op \in SingleKeyOps -> singleKeyEntry(r, own, keys[1])
      [] op \in BatchOps /\ Len(keys) = 0 -> [err |-> "nil", nodes |-> EmptyMap]
      [] op = "MultiGet" /\ Len(keys) = 1 -> singleKeyEntry(r, own, keys[1])
      [] OTHER -> getNodesForKeys(r, own, keys)

\* A public operation is called.
Op_call ==
    /\ call.phase = "none"
    /\ \E op \in Ops : \E keys \in KeyArgs(op) :
         call' = [op |-> op, keys |-> keys, phase |-> "called", err |-> "nil",
                  nodes |-> EmptyMap]
    /\ UNCHANGED <<poolVars, connVars, threadVars, out, freeConns, nextPool,
                   maxIdleConns, fault, cpc, cn, err, hrVars, sessVars, batchVars>>

\* The operation validates and routes its keys.  With an error it returns;
\* with no node to go to, a batch operation starts no task, its wait ends at
\* once and it returns what it has accumulated: nothing, and a nil error.
Op_route ==
    /\ call.phase = "called"
    /\ \E own \in Owners(ring, Range(call.keys)) :
         LET e == opEntry(call.op, ring, own, call.keys) IN
         call' = [call EXCEPT
                    !.phase = IF e.err = "nil" /\ DOMAIN e.nodes # {}
                              THEN "routed" ELSE "returned",
                    !.err = e.err,
                    !.nodes = e.nodes]
    /\ UNCHANGED <<poolVars, connVars, threadVars, out, freeConns, nextPool,
                   maxIdleConns, fault, cpc, cn, err, hrVars, sessVars, batchVars>>

\* The caller has the result of the operation.
Op_done ==
    /\ call.phase = "returned"
    /\ call' = NoCall
    /\ UNCHANGED <<poolVars, connVars, threadVars, out, freeConns, nextPool,
                   maxIdleConns, fault, cpc, cn, err, hrVars, sessVars, batchVars>>

\* A client with any ring and no pool yet, and its callers.  The tasks of a
\* routed operation are not steps of this specification.
InitEntry ==
    /\ maxCap = [p \in Pools |-> 0]
    /\ permits = [p \in Pools |-> 0]
    /\ store = [p \in Pools |-> <<>>]
    /\ storeOpen = [p \in Pools |-> TRUE]
    /\ storeClose = [p \in Pools |-> FALSE]
    /\ hasNewConn = [p \in Pools |-> TRUE]
    /\ dialAddr = [p \in Pools |-> NoNode]
    /\ conn = [c \in Conns |-> NoConnRec]
    /\ nextConn = 1
    /\ ThreadInit("idle")
    /\ out = {}
    /\ freeConns = [n \in Nodes |-> NoPool]
    /\ nextPool = 1
    /\ maxIdleConns = 1
    /\ fault = NoFault
    /\ ring \in SUBSET Nodes
    /\ call = NoCall
    /\ authEnable = FALSE
    /\ authBig = FALSE
    /\ authed = [c \in Conns |-> FALSE]
    /\ wbuf = [c \in Conns |-> <<>>]
    /\ srvIn = [c \in Conns |-> <<>>]
    /\ srvOut = [c \in Conns |-> <<>>]
    /\ BatchInit
    /\ NodesInit

NextEntry == Op_call \/ Op_route \/ Op_done

SpecEntry == InitEntry /\ [][NextEntry]_vars

\* ============================================================ entry claims
\* The operation in progress was called with a key that is not legal.
HasIllegalKey == \E i \in 1..Len(call.keys) : call.keys[i] \in IllegalKeys

\* C11: every public key-taking operation called with a key, or with any key
\* among its arguments, that is longer than 250 bytes or contains a byte
\* <= 0x20 or equal to 0x7F returns ErrMalformedKey for the whole call; it
\* goes to no node for a connection, and pools and connections are unchanged.
C11_MalformedKeyRejected ==
    [][(call.phase = "called" /\ HasIllegalKey)
          => /\ call'.phase = "returned"
             /\ call'.err = "ErrMalformedKey"
             /\ DOMAIN call'.nodes = {}
             /\ UNCHANGED <<poolVars, connVars, threadVars, freeConns>>]_vars

\* C11 witness: a MultiDelete whose second key is too long, called on a ring
\* with members, has returned ErrMalformedKey.
C11_Witness ==
    /\ call.op = "MultiDelete"
    /\ call.phase = "returned"
    /\ call.err = "ErrMalformedKey"
    /\ Len(call.keys) = 2
    /\ call.keys[1] \in LegalKeys
    /\ call.keys[2] = LongKey(MaxKeyLen + 1)
    /\ ring # {}

\* C12 (as claimed): a single-key operation, or a batch operation with two
\* or more valid keys, invoked while the ring has no member returns
\* ErrNoServers and touches no connection; it never reports success.
C12_NoServers ==
    [][(/\ call.phase = "called"
        /\ ring = {}
        /\ Range(call.keys) \subseteq LegalKeys
        /\ (call.op \in SingleKeyOps \/ Len(call.keys) >= 2))
          => /\ call'.phase = "returned"
             /\ call'.err = "ErrNoServers"
             /\ UNCHANGED <<poolVars, connVars, threadVars, freeConns>>]_vars

\* ========================================================= SASL handshake
\* transmitRequest on the buffered writer of connection c: the request stays
\* in the buffer until a flush, unless it is larger than the buffer: then
\* the writer passes what it holds and the request on to the stream.
bufWrite(c, req, big) ==
    IF big
    THEN /\ srvIn' = [srvIn EXCEPT ![c] = (@ \o wbuf[c]) \o <<req>>]
         /\ wbuf' = [wbuf EXCEPT ![c] = <<>>]
    ELSE /\ wbuf' = [wbuf EXCEPT ![c] = Append(@, req)]
         /\ UNCHANGED srvIn

\* wrtBuf.Flush() on connection c: the buffered requests reach the server.
bufFlush(c) ==
    /\ srvIn' = [srvIn EXCEPT ![c] = @ \o wbuf[c]]
    /\ wbuf' = [wbuf EXCEPT ![c] = <<>>]

\* Whether a write, a flush or a read of the handshake can fail: it fails
\* in the way the behaviour's fault says.
CanFail(kind) == fault = <<kind, NoResp>>

\* authenticate returns false: getFreeConn will return ErrAuthFail.
AuthReturn(t, ok) ==
    /\ cpc' = [cpc EXCEPT ![t] = "auth_ret"]
    /\ err' = [err EXCEPT ![t] = IF ok THEN NilErr ELSE Err("ErrAuthFail", NoResp)]

\* The statuses a server answers a handshake request with.
AuthAnswers(req) ==
    IF req = "SASL_AUTH" THEN {SUCCESS, FURTHER_AUTH, AUTHFAIL} ELSE {SUCCESS, AUTHFAIL}

\* authenticate: transmitRequest(cn.wrtBuf, req) with opcode SASL_AUTH.
Auth_transmit(t) ==
    /\ cpc[t] = "auth_transmit"
    /\ \/ /\ bufWrite(cn[t], "SASL_AUTH", authBig)
          /\ cpc' = [cpc EXCEPT ![t] = "auth_flush"]
          /\ UNCHANGED err
       \/ /\ CanFail("transmit")
          /\ AuthReturn(t, FALSE)
          /\ UNCHANGED <<wbuf, srvIn>>
    /\ UNCHANGED <<poolVars, connVars, threadVars, out, freeConns, nextPool,
                   maxIdleConns, fault, cn, hrVars, call, batchVars, authEnable, authBig, authed, srvOut>>

\* authenticate: cn.wrtBuf.Flush() after SASL_AUTH.
Auth_flush(t) ==
    /\ cpc[t] = "auth_flush"
    /\ \/ /\ bufFlush(cn[t])
          /\ cpc' = [cpc EXCEPT ![t] = "auth_read"]
          /\ UNCHANGED err
       \/ /\ CanFail("flush")
          /\ AuthReturn(t, FALSE)
          /\ UNCHANGED <<wbuf, srvIn>>
    /\ UNCHANGED <<poolVars, connVars, threadVars, out, freeConns, nextPool,
                   maxIdleConns, fault, cn, hrVars, call, batchVars, authEnable, authBig, authed, srvOut>>

\* authenticate: getResponse after SASL_AUTH.  The read waits for a response;
\* nil error: authenticated; an error with a status other than FURTHER_AUTH
\* (a failed read leaves the status 0): not authenticated; FURTHER_AUTH: the
\* step follows.
Auth_read(t) ==
    /\ cpc[t] = "auth_read"
    /\ \/ /\ srvOut[cn[t]] # <<>>
          /\ srvOut' = [srvOut EXCEPT ![cn[t]] = Tail(@)]
          /\ LET st == Head(srvOut[cn[t]]) IN
             IF wrapMemcachedResp(st) = NilErr THEN AuthReturn(t, TRUE)
             ELSE IF st # FURTHER_AUTH THEN AuthReturn(t, FALSE)
             ELSE /\ cpc' = [cpc EXCEPT ![t] = "step_transmit"]
                  /\ UNCHANGED err
       \/ /\ CanFail("io") \/ CanFail("badmagic")
          /\ AuthReturn(t, FALSE)
          /\ UNCHANGED srvOut
    /\ UNCHANGED <<poolVars, connVars, threadVars, out, freeConns, nextPool,
                   maxIdleConns, fault, cn, hrVars, call, batchVars, authEnable, authBig, authed,
                   wbuf, srvIn>>

\* authenticate: transmitRequest(cn.wrtBuf, req) with opcode SASL_STEP.
Step_transmit(t) ==
    /\ cpc[t] = "step_transmit"
    /\ \/ /\ bufWrite(cn[t], "SASL_STEP", authBig)
          /\ cpc' = [cpc EXCEPT ![t] = "step_read"]
          /\ UNCHANGED err
       \/ /\ CanFail("transmit")
          /\ AuthReturn(t, FALSE)
          /\ UNCHANGED <<wbuf, srvIn>>
    /\ UNCHANGED <<poolVars, connVars, threadVars, out, freeConns, nextPool,
                   maxIdleConns, fault, cn, hrVars, call, batchVars, authEnable, authBig, authed, srvOut>>

\* authenticate: getResponse after SASL_STEP, before any flush.
Step_read(t) ==
    /\ cpc[t] = "step_read"
    /\ \/ /\ srvOut[cn[t]] # <<>>
          /\ srvOut' = [srvOut EXCEPT ![cn[t]] = Tail(@)]
          /\ IF wrapMemcachedResp(Head(srvOut[cn[t]])) = NilErr
             THEN /\ cpc' = [cpc EXCEPT ![t] = "step_flush"]
                  /\ UNCHANGED err
             ELSE AuthReturn(t, FALSE)
       \/ /\ CanFail("io") \/ CanFail("badmagic")
          /\ AuthReturn(t, FALSE)
          /\ UNCHANGED srvOut
    /\ UNCHANGED <<poolVars, connVars, threadVars, out, freeConns, nextPool,
                   maxIdleConns, fault, cn, hrVars, call, batchVars, authEnable, authBig, authed,
                   wbuf, srvIn>>

\* authenticate: cn.wrtBuf.Flush() after the response to SASL_STEP.
Step_flush(t) ==
    /\ cpc[t] = "step_flush"
    /\ \/ /\ bufFlush(cn[t])
          /\ AuthReturn(t, TRUE)
       \/ /\ CanFail("flush")
          /\ AuthReturn(t, FALSE)
          /\ UNCHANGED <<wbuf, srvIn>>
    /\ UNCHANGED <<poolVars, connVars, threadVars, out, freeConns, nextPool,
                   maxIdleConns, fault, cn, hrVars, call, batchVars, authEnable, authBig, authed, srvOut>>

\* getFreeConn after authenticate: cn.authed = true and the connection is
\* returned for the request, or getFreeConn returns (nil, ErrAuthFail) and
\* the operation returns this error to its caller.
GetFreeConn_authed(t) ==
    /\ cpc[t] = "auth_ret"
    /\ IF err[t] = NilErr
       THEN /\ authed' = [authed EXCEPT ![cn[t]] = TRUE]
            /\ cpc' = [cpc EXCEPT ![t] = "send"]
            /\ UNCHANGED <<cn, err>>
       ELSE /\ cpc' = [cpc EXCEPT ![t] = "idle"]
            /\ cn' = [cn EXCEPT ![t] = NoConn]
            /\ err' = [err EXCEPT ![t] = NilErr]
            /\ UNCHANGED authed
    /\ UNCHANGED <<poolVars, connVars, threadVars, out, freeConns, nextPool,
                   maxIdleConns, fault, hrVars, call, batchVars, authEnable, authBig, wireVars>>

\* The server answers the first request it has received on connection c and
\* not yet answered.
Server_answer(c) ==
    /\ srvIn[c] # <<>>
    /\ \E st \in AuthAnswers(Head(srvIn[c])) :
         srvOut' = [srvOut EXCEPT ![c] = Append(@, st)]
    /\ srvIn' = [srvIn EXCEPT ![c] = Tail(@)]
    /\ UNCHANGED <<poolVars, connVars, threadVars, out, freeConns, nextPool,
                   maxIdleConns, fault, cpc, cn, err, hrVars, call, batchVars, authEnable, authBig,
                   authed, wbuf>>

AuthStep(t) ==
    \/ Auth_transmit(t)
    \/ Auth_flush(t)
    \/ Auth_read(t)
    \/ Step_transmit(t)
    \/ Step_read(t)
    \/ Step_flush(t)
    \/ GetFreeConn_authed(t)

\* A client of one server with SASL enabled, credentials that fit the write
\* buffer or not, and a network that fails in one way or not at all.
InitAuth ==
    /\ maxCap = [p \in Pools |-> 0]
    /\ permits = [p \in Pools |-> 0]
    /\ store = [p \in Pools |-> <<>>]
    /\ storeOpen = [p \in Pools |-> TRUE]
    /\ storeClose = [p \in Pools |-> FALSE]
    /\ hasNewConn = [p \in Pools |-> TRUE]
    /\ dialAddr = [p \in Pools |-> NoNode]
    /\ conn = [c \in Conns |-> NoConnRec]
    /\ nextConn = 1
    /\ ThreadInit("idle")
    /\ out = {}
    /\ freeConns = [n \in Nodes |-> NoPool]
    /\ nextPool = 1
    /\ maxIdleConns \in 1..MaxCap
    /\ fault \in {NoFault, <<"transmit", NoResp>>, <<"flush", NoResp>>, <<"io", NoResp>>}
    /\ ring = {"n1"}
    /\ call = NoCall
    /\ authEnable = TRUE
    /\ authBig \in BOOLEAN
    /\ authed = [c \in Conns |-> FALSE]
    /\ wbuf = [c \in Conns |-> <<>>]
    /\ srvIn = [c \in Conns |-> <<>>]
    /\ srvOut = [c \in Conns |-> <<>>]
    /\ BatchInit
    /\ NodesInit

NextAuth ==
    \/ NextClient
    \/ \E t \in Threads : AuthStep(t)
    \/ \E c \in Conns : Server_answer(c)

SpecAuth == InitAuth /\ [][NextAuth]_vars

\* ============================================================= SASL claims
\* No goroutine is inside an operation.
AllIdle == \A t \in Threads : cpc[t] = "idle" /\ pc[t] = "idle"

\* C13 (as claimed): when the handshake on an acquired connection fails, the
\* operation returns the auth-fail error with that connection destroyed and
\* its permit released; after any number of failed handshakes the pool can
\* still create as many connections as before: once no operation is in
\* progress, every open connection is idle in the buffer of its pool and
\* every permit is free or belongs to an idle connection.
C13_AuthFailDestroysConn ==
    AllIdle =>
        /\ \A c \in Conns : conn[c].st = "open" => c \in Idle(PoolOf(c))
        /\ \A n \in Nodes :
             freeConns[n] # NoPool
                => permits[freeConns[n]] + Len(store[freeConns[n]]) = maxCap[freeConns[n]]

\* C14 (as claimed): each handshake request is flushed to the server before
\* the client waits for its response: a goroutine that waits for the
\* response to SASL_AUTH or to SASL_STEP has no request left in its write
\* buffer.
C14_FlushedBeforeWait ==
    \A t \in Threads :
        cpc[t] \in {"auth_read", "step_read"} => wbuf[cn[t]] = <<>>

\* ========================================================= batch operations
\* getOpaque: atomic.AddUint32(c.opaque, 1) gives every caller a value no
\* other caller gets, as long as the counter does not wrap at MaxUint32: the
\* value goroutine t gets for its i-th request is named by t and i.
getOpaque(t, i) == <<t, i>>

\* The opcode of the per-key requests of a batch operation.
quietCode(op) ==
    CASE op = "MultiGet"   -> "GETQ"
      [] op = "MultiStore" -> "SETQ"
      [] OTHER             -> "DELETEQ"

\* The keys the batch operations are called with, all legal, and the slices
\* (MultiGet, MultiDelete) and maps (MultiStore) built from them.
BatchKeys == {<<97>>, <<98>>}
BatchKeyArgs(op) ==
    IF op = "MultiStore"
    THEN {q \in SeqUpTo(BatchKeys, MaxKeys) : NoDup(q)}
    ELSE SeqUpTo(BatchKeys, MaxKeys)

\* The value the server holds for a key.
Body(key) == <<"value", key>>

\* MultiGet with exactly one key calls Get and starts no goroutine.
IsSingle == call.op = "MultiGet" /\ Len(call.keys) = 1

\* The keys of the partition goroutine t works on.
TaskKeys(t) == call.nodes[task[t].node]

\* An error joined into multiErr: the error and the node or key it is for.
Joined(e, what) == [e |-> e, what |-> what]

\* A batch operation is called.
Batch_call ==
    /\ call.phase = "none"
    /\ \E op \in BatchOps : \E keys \in BatchKeyArgs(op) :
         call' = [op |-> op, keys |-> keys, phase |-> "called", err |-> "nil",
                  nodes |-> EmptyMap]
    /\ UNCHANGED <<poolVars, connVars, threadVars, out, freeConns, nextPool,
                   maxIdleConns, fault, cpc, cn, err, hrVars, sessVars, batchVars>>

\* go func(node) for every node of ns: each node gets a goroutine of its own,
\* which starts at position at.
spawn(ns, at) ==
    LET f == CHOOSE g \in [ns -> Threads] : \A a, b \in ns : g[a] = g[b] => a = b
        R == {f[n] : n \in ns}
    IN /\ task' = [t \in Threads |->
                     IF t \in R
                     THEN [NoTask EXCEPT !.node = CHOOSE n \in ns : f[n] = t, !.i = 1]
                     ELSE NoTask]
       /\ cpc' = [t \in Threads |-> IF t \in R THEN at ELSE cpc[t]]

\* for node, ks := range nodes { wg.Add(1); go func(node, keys) ... }: one
\* goroutine per node of the map; for a MultiGet of one key the caller itself
\* goes on with Get.
Batch_spawn ==
    /\ call.phase = "routed"
    /\ \A t \in Threads : cpc[t] = "idle"
    /\ spawn(DOMAIN call.nodes, "b_start")
    /\ call' = [call EXCEPT !.phase = "waiting"]
    /\ UNCHANGED <<poolVars, connVars, threadVars, out, freeConns, nextPool,
                   maxIdleConns, fault, cn, err, hrVars, sessVars,
                   retMap, singleError, multiErr, answered, errFlushAll>>

\* The pool object and the connection of node n: within one batch operation
\* every node has one partition, so one pool and at most one connection,
\* which are named by the node.
NodeIx(n) == IF n = "n1" THEN 1 ELSE 2

\* getConnForNode(node) by goroutine t, the only user of the node's pool:
\* getFreeConn; safeGetOrInitFreeConn, which creates the pool of the node
\* under fmu; and connPool.Get, which finds the store empty, takes a permit
\* and dials: the dial succeeds and cn is the new connection, or it fails,
\* the permit is released and cn is nil.
getConnForNode(t, n, dialOk) ==
    LET p == NodeIx(n)
        c == NodeIx(n)
    IN
    /\ freeConns[n] = NoPool
    /\ maxCap' = [maxCap EXCEPT ![p] = maxIdleConns]
    /\ dialAddr' = [dialAddr EXCEPT ![p] = n]
    /\ freeConns' = [freeConns EXCEPT ![n] = p]
    /\ nextPool' = nextPool + 1
    /\ IF dialOk
       THEN /\ permits' = [permits EXCEPT ![p] = maxIdleConns - token]
            /\ conn' = [conn EXCEPT ![c] = [st |-> "open", healthy |-> TRUE,
                                            nClose |-> 0, addr |-> n, pool |-> p]]
            /\ cn' = [cn EXCEPT ![t] = c]
       ELSE /\ permits' = [permits EXCEPT ![p] = maxIdleConns]
            /\ UNCHANGED <<conn, cn>>

\* getConnForNode(node) of a partition.  With an error:
\* Get returns it to MultiGet; a partition of MultiGet sets singleError
\* once; a partition of MultiStore or MultiDelete joins it into multiErr;
\* the goroutine is done.  Otherwise the requests are written.
Task_getFreeConn(t) ==
    LET n == task[t].node
        nErr == Err("newConnErr", NoResp)
    IN
    /\ cpc[t] = "b_start"
    /\ \E dialOk \in BOOLEAN :
         /\ getConnForNode(t, n, dialOk)
         /\ IF dialOk
            THEN /\ cpc' = [cpc EXCEPT ![t] = IF IsSingle THEN "send_transmit"
                                              ELSE "b_transmit"]
                 /\ UNCHANGED <<err, singleError, multiErr>>
            ELSE IF IsSingle
            THEN /\ err' = [err EXCEPT ![t] = nErr]
                 /\ cpc' = [cpc EXCEPT ![t] = "get_ret"]
                 /\ UNCHANGED <<singleError, multiErr>>
            ELSE /\ cpc' = [cpc EXCEPT ![t] = "idle"]
                 /\ IF call.op = "MultiGet"
                    THEN /\ singleError' = IF singleError = NilErr
                                           THEN nErr ELSE singleError
                         /\ UNCHANGED multiErr
                    ELSE /\ multiErr' = multiErr \cup {Joined(nErr, n)}
                         /\ UNCHANGED singleError
                 /\ UNCHANGED err
    /\ UNCHANGED <<store, storeOpen, storeClose, hasNewConn, nextConn, threadVars, out,
                   maxIdleConns, fault, hrVars, call, sessVars, task, retMap, answered, errFlushAll>>

\* A write of a request failed: cn.healthy = false; return.
transmitFailed(t) ==
    /\ CanFail("transmit")
    /\ err' = [err EXCEPT ![t] = Err("io", NoResp)]
    /\ conn' = [conn EXCEPT ![cn[t]].healthy = FALSE]
    /\ cpc' = [cpc EXCEPT ![t] = "condRelease"]
    /\ UNCHANGED <<wbuf, srvIn, task>>

\* for _, key := range keys: the quiet request of the next key gets a fresh
\* opaque and is written to wrtBuf; idToKey[opaque] = key.
Task_transmit(t) ==
    LET i == task[t].i
        o == getOpaque(t, i)
    IN
    /\ cpc[t] = "b_transmit"
    /\ i <= Len(TaskKeys(t))
    /\ \/ /\ bufWrite(cn[t], [op |-> quietCode(call.op), opaque |-> o,
                              key |-> TaskKeys(t)[i]], FALSE)
          /\ task' = [task EXCEPT ![t].i = i + 1,
                                  ![t].idToKey = MapPut(@, o, TaskKeys(t)[i])]
          /\ err' = [err EXCEPT ![t] = NilErr]
          /\ UNCHANGED <<cpc, conn>>
       \/ transmitFailed(t)
    /\ UNCHANGED <<poolVars, nextConn, threadVars, out, freeConns, nextPool,
                   maxIdleConns, fault, cn, hrVars, call, authEnable, authBig, authed,
                   srvOut, retMap, singleError, multiErr, answered, errFlushAll>>

\* After the loop: the NOOP request with opaqueNOOP is written.
Task_noop(t) ==
    LET o == getOpaque(t, task[t].i) IN
    /\ cpc[t] = "b_transmit"
    /\ task[t].i > Len(TaskKeys(t))
    /\ \/ /\ bufWrite(cn[t], [op |-> "NOOP", opaque |-> o, key |-> <<>>], FALSE)
          /\ task' = [task EXCEPT ![t].opaqueNOOP = o]
          /\ err' = [err EXCEPT ![t] = NilErr]
          /\ cpc' = [cpc EXCEPT ![t] = "b_flush"]
          /\ UNCHANGED conn
       \/ transmitFailed(t)
    /\ UNCHANGED <<poolVars, nextConn, threadVars, out, freeConns, nextPool,
                   maxIdleConns, fault, cn, hrVars, call, authEnable, authBig, authed,
                   srvOut, retMap, singleError, multiErr, answered, errFlushAll>>

\* if cnErr = cn.wrtBuf.Flush(); err != nil { return }: the test is on the
\* named result err of the operation, which getNodesForKeys left nil, and
\* not on cnErr: after a failed flush the goroutine goes on to read.
Task_flush(t) ==
    /\ cpc[t] = "b_flush"
    /\ \/ /\ bufFlush(cn[t])
          /\ err' = [err EXCEPT ![t] = NilErr]
       \/ /\ CanFail("flush")
          /\ err' = [err EXCEPT ![t] = Err("io", NoResp)]
          /\ UNCHANGED <<wbuf, srvIn>>
    /\ cpc' = [cpc EXCEPT ![t] = IF call.err # "nil" THEN "condRelease" ELSE "b_read"]
    /\ UNCHANGED <<poolVars, connVars, threadVars, out, freeConns, nextPool,
                   maxIdleConns, fault, cn, hrVars, call, authEnable, authBig, authed,
                   srvOut, batchVars>>

\* A read on connection c can fail: the network fails reads, or the stream
\* is the one a flush has failed on.
readCanFail(c) ==
    \/ CanFail("io")
    \/ CanFail("badmagic")
    \/ CanFail("flush") /\ wbuf[c] # <<>>

\* The error of a failed read.
readErr == Err(IF CanFail("badmagic") THEN "badmagic" ELSE "io", NoResp)

\* What a partition does with a response that is neither fatal nor the
\* answer to its NOOP: MultiGet adds key -> body when the opaque is known and
\* cnErr is nil; MultiStore joins an error for a known opaque when the status
\* is not SUCCESS, MultiDelete when it is neither SUCCESS nor KEY_ENOENT.
Task_handle(t, resp, e) ==
    LET known == resp.opaque \in DOMAIN task[t].idToKey
        key == task[t].idToKey[resp.opaque]
    IN
    CASE call.op = "MultiGet" ->
           /\ retMap' = IF known /\ e = NilErr THEN MapPut(retMap, key, resp.body)
                        ELSE retMap
           /\ UNCHANGED multiErr
      [] call.op = "MultiStore" ->
           /\ multiErr' = IF known /\ resp.status # SUCCESS
                          THEN multiErr \cup {Joined(e, key)} ELSE multiErr
           /\ UNCHANGED retMap
      [] OTHER ->
           /\ multiErr' = IF known /\ resp.status # SUCCESS /\ resp.status # KEY_ENOENT
                          THEN multiErr \cup {Joined(e, key)} ELSE multiErr
           /\ UNCHANGED retMap

\* The loop's break test with any response the partition knows taken as the
\* end of the batch.
isSentinel_anyKnown(t, resp) ==
    resp.op = "NOOP" \/ resp.opaque \in DOMAIN task[t].idToKey

\* if resp.Opcode == NOOP && resp.Opaque == opaqueNOOP { break }
isSentinel(t, resp) ==
    resp.op = "NOOP" /\ resp.opaque = task[t].opaqueNOOP

\* for { resp, _, cnErr = getResponse(...) ... }: one turn of the loop.  A
\* fatal cnErr: cn.healthy = false; return.  The answer to the NOOP: break.
Task_read(t) ==
    LET c == cn[t] IN
    /\ cpc[t] = "b_read"
    /\ \/ /\ srvOut[c] # <<>>
          /\ srvOut' = [srvOut EXCEPT ![c] = Tail(@)]
          /\ LET resp == Head(srvOut[c])
                 e == wrapMemcachedResp(resp.status)
             IN /\ err' = [err EXCEPT ![t] = e]
                /\ IF isFatal(e)
                   THEN /\ conn' = [conn EXCEPT ![c].healthy = FALSE]
                        /\ cpc' = [cpc EXCEPT ![t] = "condRelease"]
                        /\ UNCHANGED <<retMap, multiErr>>
                   ELSE IF isSentinel(t, resp)
                   THEN /\ cpc' = [cpc EXCEPT ![t] = "condRelease"]
                        /\ UNCHANGED <<conn, retMap, multiErr>>
                   ELSE /\ Task_handle(t, resp, e)
                        /\ UNCHANGED <<conn, cpc>>
       \/ /\ readCanFail(c)
          /\ err' = [err EXCEPT ![t] = readErr]
          /\ conn' = [conn EXCEPT ![c].healthy = FALSE]
          /\ cpc' = [cpc EXCEPT ![t] = "condRelease"]
          /\ UNCHANGED <<srvOut, retMap, multiErr>>
    /\ UNCHANGED <<poolVars, nextConn, threadVars, out, freeConns, nextPool,
                   maxIdleConns, fault, cn, hrVars, call, authEnable, authBig, authed,
                   wbuf, srvIn, task, singleError, answered, errFlushAll>>

\* Get and send for the one key of MultiGet: transmitRequest.
send_transmit(t) ==
    LET o == getOpaque(t, task[t].i) IN
    /\ cpc[t] = "send_transmit"
    /\ \/ /\ bufWrite(cn[t], [op |-> "GET", opaque |-> o, key |-> call.keys[1]], FALSE)
          /\ err' = [err EXCEPT ![t] = NilErr]
          /\ cpc' = [cpc EXCEPT ![t] = "send_flush"]
          /\ UNCHANGED <<conn, task>>
       \/ transmitFailed(t)
    /\ UNCHANGED <<poolVars, nextConn, threadVars, out, freeConns, nextPool,
                   maxIdleConns, fault, cn, hrVars, call, authEnable, authBig, authed,
                   srvOut, retMap, singleError, multiErr, answered, errFlushAll>>

\* send: if err = cn.wrtBuf.Flush(); err != nil { return nil, err }
send_flush(t) ==
    /\ cpc[t] = "send_flush"
    /\ \/ /\ bufFlush(cn[t])
          /\ cpc' = [cpc EXCEPT ![t] = "send_read"]
          /\ UNCHANGED err
       \/ /\ CanFail("flush")
          /\ err' = [err EXCEPT ![t] = Err("io", NoResp)]
          /\ cpc' = [cpc EXCEPT ![t] = "condRelease"]
          /\ UNCHANGED <<wbuf, srvIn>>
    /\ UNCHANGED <<poolVars, connVars, threadVars, out, freeConns, nextPool,
                   maxIdleConns, fault, cn, hrVars, call, authEnable, authBig, authed,
                   srvOut, batchVars>>

\* send: resp, _, err = getResponse(...); cn.healthy = !isFatal(err).  A
\* failed read leaves the Response it returns with status 0 and no body.
send_read(t) ==
    LET c == cn[t] IN
    /\ cpc[t] = "send_read"
    /\ \/ /\ srvOut[c] # <<>>
          /\ srvOut' = [srvOut EXCEPT ![c] = Tail(@)]
          /\ LET resp == Head(srvOut[c])
                 e == wrapMemcachedResp(resp.status)
             IN /\ err' = [err EXCEPT ![t] = e]
                /\ conn' = [conn EXCEPT ![c].healthy = ~isFatal(e)]
                /\ task' = [task EXCEPT ![t].res = [status |-> resp.status,
                                                    body |-> resp.body]]
       \/ /\ readCanFail(c)
          /\ err' = [err EXCEPT ![t] = readErr]
          /\ conn' = [conn EXCEPT ![c].healthy = FALSE]
          /\ task' = [task EXCEPT ![t].res = [status |-> SUCCESS, body |-> <<>>]]
          /\ UNCHANGED srvOut
    /\ cpc' = [cpc EXCEPT ![t] = "condRelease"]
    /\ UNCHANGED <<poolVars, nextConn, threadVars, out, freeConns, nextPool,
                   maxIdleConns, fault, cn, hrVars, call, authEnable, authBig, authed,
                   wbuf, srvIn, retMap, singleError, multiErr, answered, errFlushAll>>

\* cn.condRelease(&e) on connection c, the only connection of its pool: the
\* connection is put back to the pool of its address or closed: the permit
\* is released and the stream closed.
condRelease(c, e) ==
    LET p == freeConns[conn[c].addr] IN
    IF condReleaseTest(e, conn[c].healthy)
    THEN /\ store' = [store EXCEPT ![p] = SendOrDrop(@, maxCap[p], c)]
         /\ UNCHANGED <<permits, conn>>
    ELSE /\ SemaRelease(p)
         /\ closeConn(c)
         /\ UNCHANGED store

\* The deferred cn.condRelease(&cnErr), then wg.Done, or the return of send
\* and Get to MultiGet.
Task_condRelease(t) ==
    /\ cpc[t] = "condRelease"
    /\ condRelease(cn[t], err[t])
    /\ cpc' = [cpc EXCEPT ![t] = IF IsSingle THEN "get_ret" ELSE "idle"]
    /\ UNCHANGED <<maxCap, storeOpen, storeClose, hasNewConn, dialAddr, nextConn,
                   threadVars, out, freeConns, nextPool, maxIdleConns, fault,
                   cn, err, opVars>>

\* MultiGet's error after Get of its one key keeping the error of a miss.
multiGetSingleErr_keep(res, e) == e

\* MultiGet after Get of its one key: with a response of status KEY_ENOENT
\* the error becomes nil.
multiGetSingleErr(res, e) ==
    IF res # NilRes /\ res.status # SUCCESS /\ res.status = KEY_ENOENT THEN NilErr ELSE e

\* MultiGet of one key returns: a response with SUCCESS gives ret[key] = body.
MultiGet_single(t) ==
    LET res == task[t].res IN
    /\ cpc[t] = "get_ret"
    /\ retMap' = IF res # NilRes /\ res.status = SUCCESS
                 THEN MapPut(retMap, call.keys[1], res.body) ELSE retMap
    /\ call' = [call EXCEPT !.phase = "returned",
                            !.err = multiGetSingleErr(res, err[t]).kind]
    /\ cpc' = [cpc EXCEPT ![t] = "idle"]
    /\ UNCHANGED <<poolVars, connVars, threadVars, out, freeConns, nextPool,
                   maxIdleConns, fault, cn, err, hrVars, sessVars,
                   task, singleError, multiErr, answered, errFlushAll>>

\* wg.Wait() and the return: MultiGet returns ret and singleError, MultiStore
\* and MultiDelete return multiErr.
Batch_return ==
    /\ call.phase = "waiting"
    /\ ~IsSingle
    /\ \A t \in Threads : cpc[t] = "idle"
    /\ call' = [call EXCEPT !.phase = "returned",
                            !.err = IF call.op = "MultiGet" THEN singleError.kind
                                    ELSE IF multiErr = {} THEN "nil" ELSE "joined"]
    /\ UNCHANGED <<poolVars, connVars, threadVars, out, freeConns, nextPool,
                   maxIdleConns, fault, cpc, cn, err, hrVars, sessVars, batchVars>>

\* The statuses the server of this behaviour answers a key request with.
KeyAnswers == {SUCCESS} \cup (IF fault[1] = "resp" THEN {fault[2]} ELSE {})

\* The server takes the first request it has received on connection c.  It
\* answers a NOOP with SUCCESS and a GET with a status; a quiet request it
\* answers with a status or not at all.
Server_batch(c) ==
    /\ srvIn[c] # <<>>
    /\ srvIn' = [srvIn EXCEPT ![c] = Tail(@)]
    /\ LET req == Head(srvIn[c])
           Resp(st) == [op |-> req.op, opaque |-> req.opaque, status |-> st,
                        body |-> IF req.op \in {"GET", "GETQ"} /\ st = SUCCESS
                                 THEN Body(req.key) ELSE <<>>]
       IN IF req.op = "NOOP"
          THEN /\ srvOut' = [srvOut EXCEPT ![c] = Append(@, Resp(SUCCESS))]
               /\ UNCHANGED answered
          ELSE \/ /\ req.op # "GET"
                  /\ UNCHANGED <<srvOut, answered, errFlushAll>>
               \/ \E st \in KeyAnswers :
                    /\ srvOut' = [srvOut EXCEPT ![c] = Append(@, Resp(st))]
                    /\ answered' = answered \cup
                         {[key |-> req.key, status |-> st, body |-> Resp(st).body]}
    /\ UNCHANGED <<poolVars, connVars, threadVars, out, freeConns, nextPool,
                   maxIdleConns, fault, cpc, cn, err, hrVars, call, authEnable, authBig,
                   authed, wbuf, task, retMap, singleError, multiErr, errFlushAll>>

TaskStep(t) ==
    \/ Task_getFreeConn(t)
    \/ Task_transmit(t)
    \/ Task_noop(t)
    \/ Task_flush(t)
    \/ Task_read(t)
    \/ send_transmit(t)
    \/ send_flush(t)
    \/ send_read(t)
    \/ Task_condRelease(t)
    \/ MultiGet_single(t)

\* The ways the network and the servers of a batch operation fail: not at
\* all, at a write, a flush or a read, or with a status: a miss, one more
\* status that is not fatal to the connection, and one that is.
BatchFaults ==
    {NoFault, <<"transmit", NoResp>>, <<"flush", NoResp>>, <<"io", NoResp>>,
     <<"badmagic", NoResp>>, <<"resp", KEY_ENOENT>>, <<"resp", NOT_STORED>>,
     <<"resp", E2BIG>>}

\* A client of one or two servers, its ring not empty, with no pool yet; one
\* batch operation is called; the network and the servers of a behaviour
\* fail in one way or not at all.
InitBatch ==
    /\ maxCap = [p \in Pools |-> 0]
    /\ permits = [p \in Pools |-> 0]
    /\ store = [p \in Pools |-> <<>>]
    /\ storeOpen = [p \in Pools |-> TRUE]
    /\ storeClose = [p \in Pools |-> FALSE]
    /\ hasNewConn = [p \in Pools |-> TRUE]
    /\ dialAddr = [p \in Pools |-> NoNode]
    /\ conn = [c \in Conns |-> NoConnRec]
    /\ nextConn = 1
    /\ ThreadInit("idle")
    /\ out = {}
    /\ freeConns = [n \in Nodes |-> NoPool]
    /\ nextPool = 1
    /\ maxIdleConns = 1
    /\ fault \in BatchFaults
    /\ ring \in SUBSET Nodes \ {{}}
    /\ call = NoCall
    /\ authEnable = FALSE
    /\ authBig = FALSE
    /\ authed = [c \in Conns |-> FALSE]
    /\ wbuf = [c \in Conns |-> <<>>]
    /\ srvIn = [c \in Conns |-> <<>>]
    /\ srvOut = [c \in Conns |-> <<>>]
    /\ BatchInit
    /\ NodesInit

NextBatch ==
    \/ Batch_call
    \/ Op_route
    \/ Batch_spawn
    \/ Batch_return
    \/ \E t \in Threads : TaskStep(t)
    \/ \E c \in Conns : Server_batch(c)

SpecBatch == InitBatch /\ [][NextBatch]_vars
\* ============================================================ batch claims
\* Every partition of the operation got its connection.
AllConnsObtained ==
    \A n \in DOMAIN call.nodes : \E c \in Conns : conn[c].st # "none" /\ conn[c].addr = n

\* No write, flush or read of the behaviour fails, and the servers answer
\* with SUCCESS or KEY_ENOENT only.
OnlyHitsAndMisses == fault \in {NoFault, <<"resp", KEY_ENOENT>>}

\* The responses with status SUCCESS the servers have sent to key requests.
Hits == {r \in answered : r.status = SUCCESS}

\* C15: MultiGet, for any number of keys including one, returns a nil error
\* and a map with exactly the keys whose response had status SUCCESS, each
\* mapped to the body of that response, whenever every connection is
\* obtained, every request is answered and every response is SUCCESS or
\* key-not-found; a miss is not in the map and is not reported as an error.
C15_MultiGetHits ==
    (/\ call.op = "MultiGet"
     /\ call.phase = "returned"
     /\ AllConnsObtained
     /\ OnlyHitsAndMisses)
       => /\ call.err = "nil"
          /\ DOMAIN retMap = {r.key : r \in Hits}
          /\ \A r \in Hits : retMap[r.key] = r.body

\* C15 witness: a MultiGet of two keys on two nodes has returned; one key
\* was answered with SUCCESS, the other with KEY_ENOENT.
C15_Witness ==
    /\ call.op = "MultiGet"
    /\ call.phase = "returned"
    /\ DOMAIN call.nodes = Nodes
    /\ AllConnsObtained
    /\ \E r \in answered : r.status = KEY_ENOENT
    /\ \E r \in Hits : r.key \in DOMAIN retMap
\* A response to a key request of MultiStore or MultiDelete that is not a
\* success: its status is not SUCCESS and, for MultiDelete, not KEY_ENOENT.
NonSuccess(r) ==
    r.status # SUCCESS /\ ~(call.op = "MultiDelete" /\ r.status = KEY_ENOENT)

\* No write, flush or read of the behaviour fails: every response the
\* servers send reaches the client.
NoIOFailure == fault[1] \in {"none", "resp"}

\* C16 (as claimed): MultiStore and MultiDelete return a non-nil joined error
\* if and only if a per-key response has a non-success status (KEY_ENOENT
\* is a success for MultiDelete), and every key whose response is
\* non-success, whatever the status, is in the returned error.
C16_JoinedErrorIffNonSuccess ==
    (/\ call.op \in {"MultiStore", "MultiDelete"}
     /\ call.phase = "returned"
     /\ AllConnsObtained
     /\ NoIOFailure)
       => /\ (call.err # "nil") <=> (\E r \in answered : NonSuccess(r))
          /\ \A t \in Threads :
               \A o \in DOMAIN task[t].idToKey :
                 (\E r \in answered : r.key = task[t].idToKey[o] /\ NonSuccess(r))
                    => \E j \in multiErr : j.what = task[t].idToKey[o]

\* The reads of goroutine t's partition ended with a read classified fatal.
FatalRead(t) ==
    /\ task[t].node # "none"
    /\ task[t].opaqueNOOP # <<>>
    /\ cpc[t] = "idle"
    /\ isFatal(err[t])

\* C17 (as claimed): when a read of a partition's responses in MultiGet,
\* MultiStore or MultiDelete is classified fatal (I/O error, bad magic, fatal
\* status), the partition's connection is marked unhealthy and destroyed, and
\* the batch call returns a non-nil error.
C17_FatalReadSurfaced ==
    call.phase = "returned"
       => \A t \in Threads :
            FatalRead(t) => /\ ~conn[cn[t]].healthy
                            /\ conn[cn[t]].st = "closed"
                            /\ call.err # "nil"

\* The connection part of C17 alone.
C17_FatalReadDestroysConn ==
    \A t \in Threads :
        FatalRead(t) => ~conn[cn[t]].healthy /\ conn[cn[t]].st = "closed"

\* ================================================================ FlushAll
\* The goroutines of FlushAll assign to and read FlushAll's named result err
\* without synchronisation: every assignment and every test of err is a step
\* of its own, and a test sees the last value any goroutine assigned.  The
\* value carries the node whose goroutine assigned it.  err[t] keeps what
\* goroutine t itself assigned last.
assignErr(t, e) ==
    /\ errFlushAll' = Joined(e, task[t].node)
    /\ err' = [err EXCEPT ![t] = e]

\* FlushAll is called: nodes = c.hr.GetAllNodes() and one goroutine per node.
FlushAll_call ==
    /\ call.phase = "none"
    /\ \A t \in Threads : cpc[t] = "idle"
    /\ call' = [op |-> "FlushAll", keys |-> <<>>, phase |-> "waiting", err |-> "nil",
                nodes |-> [n \in ring |-> <<>>]]
    /\ spawn(ring, "f_start")
    /\ UNCHANGED <<poolVars, connVars, threadVars, out, freeConns, nextPool,
                   maxIdleConns, fault, cn, err, hrVars, sessVars,
                   retMap, singleError, multiErr, answered, errFlushAll>>

\* cn, err = c.getConnForNode(node)
F_getConn(t) ==
    /\ cpc[t] = "f_start"
    /\ \E dialOk \in BOOLEAN :
         /\ getConnForNode(t, task[t].node, dialOk)
         /\ assignErr(t, IF dialOk THEN NilErr ELSE Err("newConnErr", NoResp))
    /\ cpc' = [cpc EXCEPT ![t] = "f_connCheck"]
    /\ UNCHANGED <<store, storeOpen, storeClose, hasNewConn, nextConn, threadVars, out,
                   maxIdleConns, fault, hrVars, call, sessVars,
                   task, retMap, singleError, multiErr, answered>>

\* if err != nil { addToMultiErr(err); return }; defer cn.condRelease(&err).
\* When err is nil while cn is nil, the first use of cn is a nil pointer
\* dereference: the goroutine panics.
F_connCheck(t) ==
    /\ cpc[t] = "f_connCheck"
    /\ IF errFlushAll.e # NilErr
       THEN /\ multiErr' = multiErr \cup {errFlushAll}
            /\ cpc' = [cpc EXCEPT ![t] = "idle"]
       ELSE /\ UNCHANGED multiErr
            /\ cpc' = [cpc EXCEPT ![t] = IF cn[t] = NoConn THEN "panic" ELSE "f_transmit"]
    /\ UNCHANGED <<poolVars, connVars, threadVars, out, freeConns, nextPool,
                   maxIdleConns, fault, cn, err, hrVars, call, sessVars,
                   task, retMap, singleError, answered, errFlushAll>>

\* _, err = transmitRequest(cn.wrtBuf, req) with opcode FLUSH
F_transmit(t) ==
    /\ cpc[t] = "f_transmit"
    /\ \/ assignErr(t, NilErr)
       \/ CanFail("transmit") /\ assignErr(t, Err("io", NoResp))
    /\ cpc' = [cpc EXCEPT ![t] = "f_transmitCheck"]
    /\ UNCHANGED <<poolVars, connVars, threadVars, out, freeConns, nextPool,
                   maxIdleConns, fault, cn, hrVars, call, sessVars,
                   task, retMap, singleError, multiErr, answered>>

\* if err != nil { cn.healthy = false; return }
F_transmitCheck(t) ==
    /\ cpc[t] = "f_transmitCheck"
    /\ IF errFlushAll.e # NilErr
       THEN /\ conn' = [conn EXCEPT ![cn[t]].healthy = FALSE]
            /\ cpc' = [cpc EXCEPT ![t] = "f_condRelease"]
       ELSE /\ UNCHANGED conn
            /\ cpc' = [cpc EXCEPT ![t] = "f_flush"]
    /\ UNCHANGED <<poolVars, nextConn, threadVars, out, freeConns, nextPool,
                   maxIdleConns, fault, cn, err, hrVars, call, sessVars, batchVars>>

\* err = cn.wrtBuf.Flush()
F_flush(t) ==
    /\ cpc[t] = "f_flush"
    /\ \/ assignErr(t, NilErr)
       \/ CanFail("flush") /\ assignErr(t, Err("io", NoResp))
    /\ cpc' = [cpc EXCEPT ![t] = "f_flushCheck"]
    /\ UNCHANGED <<poolVars, connVars, threadVars, out, freeConns, nextPool,
                   maxIdleConns, fault, cn, hrVars, call, sessVars,
                   task, retMap, singleError, multiErr, answered>>

\* ; err != nil { return }
F_flushCheck(t) ==
    /\ cpc[t] = "f_flushCheck"
    /\ cpc' = [cpc EXCEPT ![t] = IF errFlushAll.e # NilErr THEN "f_condRelease"
                                 ELSE "f_read"]
    /\ UNCHANGED <<poolVars, connVars, threadVars, out, freeConns, nextPool,
                   maxIdleConns, fault, cn, err, hrVars, call, sessVars, batchVars>>

\* _, _, err = getResponse(cn.rc, cn.hdrBuf): the server's answer to FLUSH,
\* SUCCESS or what the behaviour's fault says.
F_read(t) ==
    /\ cpc[t] = "f_read"
    /\ \E o \in ReadOutcomes \cap {<<"resp", SUCCESS>>, fault} :
         assignErr(t, getResponseErr(o))
    /\ cpc' = [cpc EXCEPT ![t] = "f_readCheck"]
    /\ UNCHANGED <<poolVars, connVars, threadVars, out, freeConns, nextPool,
                   maxIdleConns, fault, cn, hrVars, call, sessVars,
                   task, retMap, singleError, multiErr, answered>>

\* if err != nil { if isFatal(err) { cn.healthy = false; return };
\* addToMultiErr(err) }
F_readCheck(t) ==
    /\ cpc[t] = "f_readCheck"
    /\ IF errFlushAll.e # NilErr /\ isFatal(errFlushAll.e)
       THEN /\ conn' = [conn EXCEPT ![cn[t]].healthy = FALSE]
            /\ UNCHANGED multiErr
       ELSE /\ multiErr' = IF errFlushAll.e # NilErr THEN multiErr \cup {errFlushAll}
                           ELSE multiErr
            /\ UNCHANGED conn
    /\ cpc' = [cpc EXCEPT ![t] = "f_condRelease"]
    /\ UNCHANGED <<poolVars, nextConn, threadVars, out, freeConns, nextPool,
                   maxIdleConns, fault, cn, err, hrVars, call, sessVars,
                   task, retMap, singleError, answered, errFlushAll>>

\* The deferred cn.condRelease(&err), then wg.Done.
F_condRelease(t) ==
    /\ cpc[t] = "f_condRelease"
    /\ condRelease(cn[t], errFlushAll.e)
    /\ cpc' = [cpc EXCEPT ![t] = "idle"]
    /\ UNCHANGED <<maxCap, storeOpen, storeClose, hasNewConn, dialAddr, nextConn,
                   threadVars, out, freeConns, nextPool, maxIdleConns, fault,
                   cn, err, opVars>>

\* wg.Wait(); return multiErr
FlushAll_return ==
    /\ call.phase = "waiting"
    /\ \A t \in Threads : cpc[t] = "idle"
    /\ call' = [call EXCEPT !.phase = "returned",
                            !.err = IF multiErr = {} THEN "nil" ELSE "joined"]
    /\ UNCHANGED <<poolVars, connVars, threadVars, out, freeConns, nextPool,
                   maxIdleConns, fault, cpc, cn, err, hrVars, sessVars, batchVars>>

FlushStep(t) ==
    \/ F_getConn(t)
    \/ F_connCheck(t)
    \/ F_transmit(t)
    \/ F_transmitCheck(t)
    \/ F_flush(t)
    \/ F_flushCheck(t)
    \/ F_read(t)
    \/ F_readCheck(t)
    \/ F_condRelease(t)

\* A client with any ring and no pool yet; FlushAll is called once; the
\* network and the servers of a behaviour fail in one way or not at all.
InitFlushAll ==
    /\ maxCap = [p \in Pools |-> 0]
    /\ permits = [p \in Pools |-> 0]
    /\ store = [p \in Pools |-> <<>>]
    /\ storeOpen = [p \in Pools |-> TRUE]
    /\ storeClose = [p \in Pools |-> FALSE]
    /\ hasNewConn = [p \in Pools |-> TRUE]
    /\ dialAddr = [p \in Pools |-> NoNode]
    /\ conn = [c \in Conns |-> NoConnRec]
    /\ nextConn = 1
    /\ ThreadInit("idle")
    /\ out = {}
    /\ freeConns = [n \in Nodes |-> NoPool]
    /\ nextPool = 1
    /\ maxIdleConns = 1
    /\ fault \in BatchFaults
    /\ ring \in SUBSET Nodes
    /\ call = NoCall
    /\ authEnable = FALSE
    /\ authBig = FALSE
    /\ authed = [c \in Conns |-> FALSE]
    /\ wbuf = [c \in Conns |-> <<>>]
    /\ srvIn = [c \in Conns |-> <<>>]
    /\ srvOut = [c \in Conns |-> <<>>]
    /\ BatchInit
    /\ NodesInit

NextFlushAll ==
    \/ FlushAll_call
    \/ FlushAll_return
    \/ \E t \in Threads : FlushStep(t)

SpecFlushAll == InitFlushAll /\ [][NextFlushAll]_vars

\* ========================================================== FlushAll claim
\* The member of goroutine t did not acknowledge the FLUSH with SUCCESS: the
\* last call of the goroutine returned an error.
MemberFailed(t) == task[t].node # "none" /\ err[t] # NilErr

\* C18 (as claimed): FlushAll sends a FLUSH to every ring member and returns
\* nil only if every member acknowledged it with SUCCESS: a failure on any
\* member (connection acquisition, write, flush, fatal or non-fatal read
\* error) is in the returned joined error.
C18_FlushAllReportsFailures ==
    (call.op = "FlushAll" /\ call.phase = "returned")
       => /\ {task[t].node : t \in Threads} \ {"none"} = ring
          /\ \A t \in Threads :
               MemberFailed(t) => /\ call.err # "nil"
                                  /\ \E j \in multiErr : j.what = task[t].node

\* The part of C18 that holds when FlushAll has one member: a failed
\* connection acquisition or a non-fatal read error is in the returned error.
C18_ReportedFailures ==
    (/\ call.op = "FlushAll" /\ call.phase = "returned"
     /\ \E n \in Nodes : ring = {n})
       => \A t \in Threads :
            (MemberFailed(t) /\ (cn[t] = NoConn \/ ~isFatal(err[t])))
               => \E j \in multiErr : j.what = task[t].node

\* =========================================================== CloseAllConns
\* c.fmu is free: no goroutine is inside CloseAllConns, which holds the lock
\* from its first statement to its return.  The other users of fmu hold it
\* for the length of one step.
fmuFree == \A t \in Threads : cpc[t] \notin {"closeAll", "closeAll_destroy"}

\* CloseAllConns: c.fmu.Lock(), when the goroutine does not hold it yet, and
\* the next turn of for addr, connPool := range c.freeConns: the call of
\* connPool.Destroy().
CloseAllConns_destroy(t) ==
    /\ pc[t] = "idle"
    /\ \/ cpc[t] = "idle" /\ fmuFree
       \/ cpc[t] = "closeAll"
    /\ \E n \in Nodes :
         /\ freeConns[n] # NoPool
         /\ PoolCall(t, freeConns[n], "Destroy_check", NoConn)
    /\ cpc' = [cpc EXCEPT ![t] = "closeAll_destroy"]
    /\ UNCHANGED <<poolVars, connVars, out, freeConns, nextPool, maxIdleConns, fault,
                   cn, err, opVars>>

\* Destroy has returned: delete(c.freeConns, addr).
CloseAllConns_delete(t) ==
    /\ cpc[t] = "closeAll_destroy"
    /\ pc[t] = "ret"
    /\ PoolBack(t)
    /\ freeConns' = [freeConns EXCEPT ![dialAddr[tp[t]]] = NoPool]
    /\ cpc' = [cpc EXCEPT ![t] = "closeAll"]
    /\ UNCHANGED <<poolVars, connVars, out, nextPool, maxIdleConns, fault,
                   cn, err, opVars>>

\* The range is over: the deferred c.fmu.Unlock() and the return.  The
\* goroutine that has closed the connections calls no operation afterwards.
CloseAllConns_return(t) ==
    /\ cpc[t] = "closeAll"
    /\ \A n \in Nodes : freeConns[n] = NoPool
    /\ cpc' = [cpc EXCEPT ![t] = "closeAll_done"]
    /\ UNCHANGED <<poolVars, connVars, threadVars, out, freeConns, nextPool,
                   maxIdleConns, fault, cn, err, opVars>>

\* safeGetOrInitFreeConn takes c.fmu.Lock(): it waits while CloseAllConns
\* holds fmu.
Locked_getFreeConn(t) == fmuFree /\ SingleKey_getFreeConn(t)

\* safeGetFreeConn of release and close takes c.fmu.RLock(): it waits while
\* CloseAllConns holds fmu.
RLocked_condRelease(t) == fmuFree /\ CondRelease(t)

\* A client of one server, as in SpecClient, whose exchanges succeed or fail
\* at the read.
InitCloseAll ==
    /\ InitClient
    /\ fault \in {<<"io", NoResp>>, <<"resp", KEY_ENOENT>>}

\* The operations of the client and CloseAllConns: the steps that look the
\* pool map up under fmu wait while CloseAllConns holds it.
NextCloseAll ==
    \E t \in Threads :
        \/ Locked_getFreeConn(t)
        \/ RLocked_condRelease(t)
        \/ GetFreeConn_got(t)
        \/ send(t)
        \/ Send_return(t)
        \/ CloseAllConns_destroy(t)
        \/ CloseAllConns_delete(t)
        \/ CloseAllConns_return(t)
        \/ Get_select(t)
        \/ Get_acquire(t)
        \/ Get_timeout(t)
        \/ Get_check(t)
        \/ Get_new(t)
        \/ Put_check(t)
        \/ Put_send(t)
        \/ Close_release(t)
        \/ Close_closeConn(t)
        \/ Destroy_check(t)
        \/ Destroy_closeFlag(t)
        \/ Destroy_closeStore(t)
        \/ Destroy_range(t)
        \/ Destroy_release(t)
        \/ Destroy_closeConn(t)

SpecCloseAll == InitCloseAll /\ [][NextCloseAll]_vars

\* ====================================================== CloseAllConns claim
\* Connection c is idle in the pool of an address of the pool map.
InLivePool(c) ==
    \E n \in Nodes : freeConns[n] # NoPool /\ c \in Range(store[freeConns[n]])

\* CloseAllConns has returned and no operation is in progress.
ClosedAndIdle ==
    /\ \E t \in Threads : cpc[t] = "closeAll_done"
    /\ \A t \in Threads : pc[t] = "idle" /\ cpc[t] \in {"idle", "closeAll_done"}

\* C19 (as claimed): when CloseAllConns returns the pool map is empty and
\* the connections that were idle are closed; in every interleaving with
\* operations in flight, a connection handed out during the call is closed
\* when its operation finishes: once CloseAllConns has returned and the
\* operations are over, no connection is open outside the store of a pool of
\* the map, and no destroyed pool has a connection in its store.
C19_CloseAllClosesEverything ==
    /\ \A t \in Threads :
         cpc[t] = "closeAll_done" =>
            \A p \in Pools : storeClose[p] /\ (\A u \in Threads : pc[u] = "idle")
                                => store[p] = <<>>
    /\ ClosedAndIdle => \A c \in Conns : conn[c].st = "open" => InLivePool(c)

\* The part of C19 about the return of CloseAllConns: the pool map is empty
\* and no connection is idle in the store of any pool.
C19_ReturnLeavesNoPool ==
    [][\A t \in Threads :
         (cpc[t] = "closeAll" /\ cpc'[t] = "closeAll_done")
            => /\ \A n \in Nodes : freeConns'[n] = NoPool
               /\ \A p \in Pools : store'[p] = <<>>]_vars
\* ========================================================== nodes provider
\* The server strings of the configuration: addresses in the form
\* net.ResolveTCPAddr prints them in (the names of Nodes), and host names.
HostNames == {"h1", "h2"}
ServerStrings == Nodes \cup HostNames

\* A string AddrRepr cannot resolve.
AddrErr == "AddrErr"

\* net.ResolveTCPAddr(server).String() for a host name.
ResolveTCPAddr(s) == IF s = "h1" THEN "n1" ELSE "n2"

\* utils.AddrRepr: the address a server string names.  Its String() is the
\* resolved IP:port, whatever the string was.
AddrRepr(s) ==
    IF s \in Nodes THEN s
    ELSE IF s \in HostNames THEN ResolveTCPAddr(s)
    ELSE AddrErr

\* utils.Repr: the canonical string form of a ring member (the String() of
\* the address, which names it here) and, of a string, the string itself.
Repr(node) == node

\* hr.Add(addr): any placement of the member is removed and it is placed.
hrAdd(r, addr) == (r \ {a \in r : Repr(a) = Repr(addr)}) \cup {addr}

\* hr.Remove(addr)
hrRemove(r, addr) == r \ {a \in r : Repr(a) = Repr(addr)}

\* getNodes
getNodes == servers

\* The dial loop of nodeIsDead with countRetry retries behind it: a dial
\* that times out is repeated DefaultRetryCountForConn times.
RECURSIVE dialLoop(_, _)
dialLoop(addr, countRetry) ==
    IF reach[addr] = "ok" THEN FALSE
    ELSE IF reach[addr] = "timeout" /\ countRetry < DefaultRetryCountForConn
         THEN dialLoop(addr, countRetry + 1)
         ELSE TRUE

\* nodeIsDead
nodeIsDead(node) ==
    LET addr == AddrRepr(Repr(node)) IN
    IF addr = AddrErr THEN TRUE ELSE dialLoop(addr, 0)

\* The addresses nodeIsDead(node) dials.
dialsOf(node) ==
    LET addr == AddrRepr(Repr(node)) IN
    IF addr = AddrErr THEN {} ELSE {addr}

\* Pop that takes every idle connection of the pool.
Popped_all(p, numOfClose) == IF isClosed(p) THEN <<>> ELSE store[p]

\* The connections Pop takes from pool p in numOfClose calls.
Popped(p, numOfClose) ==
    IF isClosed(p) THEN <<>>
    ELSE SubSeq(store[p], 1, IF Len(store[p]) < numOfClose THEN Len(store[p]) ELSE numOfClose)

\* CloseAvailableConnsInAllShardPools(numOfClose), under fmu: p.Pop and
\* p.Close, numOfClose times for every pool of freeConns.
CloseAvailableConnsInAllShardPools(numOfClose) ==
    LET ps == {freeConns[n] : n \in Nodes} \ {NoPool}
        gone == UNION {Range(Popped(p, numOfClose)) : p \in ps} IN
    /\ store' = [p \in Pools |->
                   IF p \in ps
                   THEN SubSeq(store[p], Len(Popped(p, numOfClose)) + 1, Len(store[p]))
                   ELSE store[p]]
    /\ permits' = [p \in Pools |->
                     IF p \in ps THEN permits[p] + token * Len(Popped(p, numOfClose))
                     ELSE permits[p]]
    /\ conn' = [c \in Conns |->
                  IF c \in gone
                  THEN [conn[c] EXCEPT !.st = "closed", !.nClose = @ + 1]
                  ELSE conn[c]]
    /\ UNCHANGED <<maxCap, storeOpen, storeClose, hasNewConn, dialAddr, nextConn>>

\* removeFromFreeConns(addr): nothing when the client has no pool map or no
\* pool of the address; else connPool.Destroy() and the pool leaves the map.
removeFromFreeConns(addr) ==
    LET p == freeConns[addr] IN
    IF p = NoPool
    THEN UNCHANGED <<poolVars, connVars, freeConns>>
    ELSE /\ freeConns' = [freeConns EXCEPT ![addr] = NoPool]
         /\ IF isClosed(p)
            THEN UNCHANGED <<poolVars, connVars>>
            ELSE /\ storeClose' = [storeClose EXCEPT ![p] = TRUE]
                 /\ storeOpen' = [storeOpen EXCEPT ![p] = FALSE]
                 /\ store' = [store EXCEPT ![p] = <<>>]
                 /\ permits' = [permits EXCEPT ![p] = @ + token * Len(store[p])]
                 /\ conn' = [c \in Conns |->
                               IF c \in Range(store[p])
                               THEN [conn[c] EXCEPT !.st = "closed", !.nClose = @ + 1]
                               ELSE conn[c]]
                 /\ UNCHANGED <<maxCap, hasNewConn, dialAddr, nextConn>>

\* What the actions of the two loops leave alone.
LoopFrame ==
    UNCHANGED <<threadVars, out, nextPool, maxIdleConns, fault, cpc, cn, err,
                call, sessVars, batchVars, servers, reach, changes, ctxDone, hashVars, codec, auxVars>>

\* ------------------------------------------------------- checkNodesHealth
\* The timer of the health-check loop fires: getNodes, and the copy of the
\* dead set checkNodesHealth works on.
HC_start(at) ==
    /\ hc.pc = at
    /\ hc' = [pc |-> "recheck", err |-> "nil", currentNodes |-> getNodes,
              deadNodes |-> deadNodes, ringNodes |-> {}, todo |-> deadNodes]
    /\ dialled' = {}
    /\ started' = [started EXCEPT !.hc = IF ctxDone THEN @ + 1 ELSE @]
    /\ UNCHANGED <<poolVars, connVars, freeConns, ring, deadNodes, rb>>
    /\ LoopFrame

HC_tick == HC_start("idle")

\* recheckDeadNodes(node), for one node of the copy.
HC_recheck ==
    /\ hc.pc = "recheck"
    /\ \E node \in hc.todo :
         LET sNode == Repr(node) IN
         /\ deadNodes' = IF sNode \notin hc.currentNodes THEN deadNodes \ {sNode}
                         ELSE IF nodeIsDead(node) THEN deadNodes \cup {sNode}
                         ELSE deadNodes \ {sNode}
         /\ dialled' = IF sNode \notin hc.currentNodes THEN dialled
                       ELSE dialled \cup dialsOf(node)
         /\ hc' = [hc EXCEPT !.todo = @ \ {node}]
    /\ UNCHANGED <<poolVars, connVars, freeConns, ring, rb, started>>
    /\ LoopFrame

\* After wg.Wait(): hr.GetAllNodes() without the nodes of the copy.
HC_ringNodes ==
    /\ hc.pc = "recheck"
    /\ hc.todo = {}
    /\ hc' = [hc EXCEPT !.pc = "probe",
                        !.ringNodes = {a \in ring : Repr(a) \notin hc.deadNodes},
                        !.todo = {a \in ring : Repr(a) \notin hc.deadNodes}]
    /\ UNCHANGED <<poolVars, connVars, freeConns, ring, deadNodes, rb, dialled, started>>
    /\ LoopFrame

\* The goroutine of one ring node: nodeIsDead, safeAddToDeadNodes.
HC_probe ==
    /\ hc.pc = "probe"
    /\ \E n \in hc.todo :
         /\ deadNodes' = IF nodeIsDead(n) THEN deadNodes \cup {Repr(n)} ELSE deadNodes
         /\ dialled' = dialled \cup dialsOf(n)
         /\ hc' = [hc EXCEPT !.todo = @ \ {n}]
    /\ UNCHANGED <<poolVars, connVars, freeConns, ring, rb, started>>
    /\ LoopFrame

\* After the second wg.Wait(): len(deadNodes) != 0, of the copy.
HC_deadNodes ==
    /\ hc.pc = "probe"
    /\ hc.todo = {}
    /\ hc' = IF hc.deadNodes # {} THEN [hc EXCEPT !.pc = "remove", !.todo = hc.deadNodes]
             ELSE [hc EXCEPT !.pc = "idle"]
    /\ UNCHANGED <<poolVars, connVars, freeConns, ring, deadNodes, rb, dialled, started>>
    /\ LoopFrame

\* One node of the copy: AddrRepr, hr.Remove, removeFromFreeConns; after the
\* last one checkNodesHealth returns and the timer is reset.
HC_remove ==
    /\ hc.pc = "remove"
    /\ \E node \in hc.todo :
         LET addr == AddrRepr(node) IN
         /\ IF addr = AddrErr
            THEN UNCHANGED <<ring, poolVars, connVars, freeConns>>
            ELSE /\ ring' = hrRemove(ring, addr)
                 /\ removeFromFreeConns(addr)
         /\ hc' = [hc EXCEPT !.todo = @ \ {node},
                             !.pc = IF hc.todo = {node} THEN "idle" ELSE "remove"]
    /\ UNCHANGED <<deadNodes, rb, dialled, started>>
    /\ LoopFrame

HCStep == HC_tick \/ HC_recheck \/ HC_ringNodes \/ HC_probe \/ HC_deadNodes \/ HC_remove

\* ------------------------------------------------------------ rebuildNodes
\* The timer of the rebuild loop fires: getNodes without the dead nodes.
RB_start(at) ==
    /\ rb.pc = at
    /\ rb' = [rb EXCEPT !.pc = "ring", !.err = "nil", !.currentNodes = getNodes \ deadNodes]
    /\ started' = [started EXCEPT !.rb = IF ctxDone THEN @ + 1 ELSE @]
    /\ UNCHANGED <<poolVars, connVars, freeConns, ring, deadNodes, hc, dialled>>
    /\ LoopFrame

RB_tick == RB_start("idle")

\* nodesInRing, nodesToAdd and nodesToRemove.
RB_ring ==
    /\ rb.pc = "ring"
    /\ LET nodesInRing == {Repr(node) : node \in ring} IN
       rb' = [rb EXCEPT !.pc = "update",
                        !.nodesToAdd = rb.currentNodes \ nodesInRing,
                        !.nodesToRemove = nodesInRing \ rb.currentNodes]
    /\ UNCHANGED <<poolVars, connVars, freeConns, ring, deadNodes, hc, dialled, started>>
    /\ LoopFrame

\* One node of nodesToAdd: AddrRepr, hr.Add.  (The nodes are taken in any
\* order: additions of different nodes commute.)
RB_add ==
    /\ rb.pc = "update"
    /\ \E node \in rb.nodesToAdd :
         LET addr == AddrRepr(node) IN
         /\ ring' = IF addr = AddrErr THEN ring ELSE hrAdd(ring, addr)
         /\ rb' = [rb EXCEPT !.nodesToAdd = @ \ {node}]
    /\ UNCHANGED <<poolVars, connVars, freeConns, deadNodes, hc, dialled, started>>
    /\ LoopFrame

\* One node of nodesToRemove, after the additions: AddrRepr, hr.Remove.
RB_remove ==
    /\ rb.pc = "update"
    /\ rb.nodesToAdd = {}
    /\ \E node \in rb.nodesToRemove :
         LET addr == AddrRepr(node) IN
         /\ ring' = IF addr = AddrErr THEN ring ELSE hrRemove(ring, addr)
         /\ rb' = [rb EXCEPT !.nodesToRemove = @ \ {node}]
    /\ UNCHANGED <<poolVars, connVars, freeConns, deadNodes, hc, dialled, started>>
    /\ LoopFrame

\* if !c.disableRefreshConns { CloseAvailableConnsInAllShardPools(...) };
\* rebuildNodes returns and the timer is reset.
RB_refresh ==
    /\ rb.pc = "update"
    /\ rb.nodesToAdd = {}
    /\ rb.nodesToRemove = {}
    /\ IF disableRefreshConns
       THEN UNCHANGED <<poolVars, connVars>>
       ELSE CloseAvailableConnsInAllShardPools(DefaultOfNumberConnsToDestroyPerRBPeriod)
    /\ rb' = RBIdle
    /\ UNCHANGED <<freeConns, ring, deadNodes, hc, dialled, started>>
    /\ LoopFrame

RBStep == RB_tick \/ RB_ring \/ RB_add \/ RB_remove \/ RB_refresh

\* ------------------------------------------------------------ the network
\* An endpoint becomes reachable or unreachable, or unreachable in another
\* way; this happens MaxChanges times at most.
Net_change ==
    /\ changes < MaxChanges
    /\ \E n \in Nodes, r \in {"ok", "refused", "timeout"} :
         /\ r # reach[n]
         /\ reach' = [reach EXCEPT ![n] = r]
    /\ changes' = changes + 1
    /\ UNCHANGED <<poolVars, connVars, threadVars, out, freeConns, nextPool,
                   maxIdleConns, fault, cpc, cn, err, ring, call, sessVars, batchVars,
                   servers, deadNodes, hc, rb, ctxDone, dialled, started, hashVars, codec, auxVars>>

\* A client made by newFromConfig from a list of servers, its two loops
\* started, no request made yet; the client is not closed.
InitNodes ==
    /\ maxCap = [p \in Pools |-> 0]
    /\ permits = [p \in Pools |-> 0]
    /\ store = [p \in Pools |-> <<>>]
    /\ storeOpen = [p \in Pools |-> TRUE]
    /\ storeClose = [p \in Pools |-> FALSE]
    /\ hasNewConn = [p \in Pools |-> TRUE]
    /\ dialAddr = [p \in Pools |-> NoNode]
    /\ conn = [c \in Conns |-> NoConnRec]
    /\ nextConn = 1
    /\ ThreadInit("idle")
    /\ out = {}
    /\ freeConns = [n \in Nodes |-> NoPool]
    /\ nextPool = 1
    /\ maxIdleConns = 1
    /\ fault = NoFault
    /\ call = NoCall
    /\ authEnable = FALSE
    /\ authBig = FALSE
    /\ authed = [c \in Conns |-> FALSE]
    /\ wbuf = [c \in Conns |-> <<>>]
    /\ srvIn = [c \in Conns |-> <<>>]
    /\ srvOut = [c \in Conns |-> <<>>]
    /\ BatchInit
    /\ servers \in SUBSET ServerStrings \ {{}}
    /\ ring = {AddrRepr(s) : s \in servers}
    /\ reach \in [Nodes -> {"ok", "refused", "timeout"}]
    /\ changes = 0
    /\ deadNodes = {}
    /\ hc = HCIdle
    /\ rb = RBIdle
    /\ ctxDone = FALSE
    /\ dialled = {}
    /\ started = [hc |-> 0, rb |-> 0]
    /\ hashRing = [replicas |-> 0, keys |-> <<>>, ring |-> <<>>, nodes |-> {}]
    /\ hashFunc = <<>>
    /\ cfgServers = <<>>
    /\ codec = NoCodec
    /\ AuxInit

NextNodes == HCStep \/ RBStep \/ Net_change

\* The timers of both loops keep firing and the loops keep running.
SpecNodes == InitNodes /\ [][NextNodes]_vars /\ WF_vars(HCStep) /\ WF_vars(RBStep)

\* ================================================== nodes provider claim
\* The endpoints the server list resolves to.
Resolved == {AddrRepr(s) : s \in servers}

\* C20 (as claimed): once the server list and the reachability of every
\* endpoint have stopped changing, the ring eventually equals the set of
\* resolved endpoints that are reachable and the dead set the set of
\* resolved endpoints that are unreachable, and both stay so forever,
\* whether the server strings are in canonical form or host names.
C20_LoopsConverge ==
    <>[](/\ ring = {n \in Resolved : reach[n] = "ok"}
         /\ {AddrRepr(d) : d \in deadNodes} = {n \in Resolved : reach[n] # "ok"})

\* The same for server strings in canonical form only.
C20_CanonicalConverge ==
    (servers \subseteq Nodes) => C20_LoopsConverge
\* ============================================================ cancellation
\* c.ctx is cancelled.
Cancel ==
    /\ ~ctxDone
    /\ ctxDone' = TRUE
    /\ UNCHANGED <<poolVars, connVars, threadVars, out, freeConns, nextPool,
                   maxIdleConns, fault, cpc, cn, err, ring, call, sessVars, batchVars,
                   servers, reach, changes, deadNodes, hc, rb, dialled, started, hashVars, codec, auxVars>>

\* A loop waits in its select and the period of its timer has passed: the
\* channel of the timer holds a value.
timerFires(loop) == [loop EXCEPT !.pc = "fired"]

\* (mutant) the case of c.ctx.Done() without its return
loopReturns_continue(loop) == [loop EXCEPT !.pc = "idle"]

\* case <-c.ctx.Done(): tHC.Stop(); return
loopReturns(loop) == [loop EXCEPT !.pc = "returned"]

\* The select of a loop blocks: no case is ready.  The period of a timer is
\* taken to pass only while its loop is blocked: a loop that comes back to
\* its select with the context cancelled returns before the timer it has
\* just reset expires.
blocked(loop) == loop.pc = "idle" /\ ~ctxDone

\* Whether the select of a loop can take its case <-c.ctx.Done().
doneReady(loop) == ctxDone /\ loop.pc \in {"idle", "fired"}

HC_timer ==
    /\ blocked(hc)
    /\ hc' = timerFires(hc)
    /\ UNCHANGED <<poolVars, connVars, freeConns, ring, deadNodes, rb, dialled, started>>
    /\ LoopFrame

\* case <-tHC.C: c.checkNodesHealth(), up to its copy of the dead set.
HC_case_tick == HC_start("fired")

\* (mutant) checkNodesHealth without the return after the error of getNodes:
\* it goes on with the empty list.
HC_getNodesErr_goesOn ==
    /\ hc.pc = "fired"
    /\ hc' = [pc |-> "recheck", err |-> "getNodes", currentNodes |-> {},
              deadNodes |-> deadNodes, ringNodes |-> {}, todo |-> deadNodes]
    /\ started' = [started EXCEPT !.hc = IF ctxDone THEN @ + 1 ELSE @]
    /\ UNCHANGED <<poolVars, connVars, freeConns, ring, deadNodes, rb, dialled>>
    /\ LoopFrame

\* getNodes fails in checkNodesHealth: it returns and the timer is reset.
HC_getNodesErr ==
    /\ hc.pc = "fired"
    /\ hc' = [hc EXCEPT !.pc = "idle", !.err = "getNodes"]
    /\ started' = [started EXCEPT !.hc = IF ctxDone THEN @ + 1 ELSE @]
    /\ UNCHANGED <<poolVars, connVars, freeConns, ring, deadNodes, rb, dialled>>
    /\ LoopFrame

HC_case_done ==
    /\ doneReady(hc)
    /\ hc' = loopReturns(hc)
    /\ UNCHANGED <<poolVars, connVars, freeConns, ring, deadNodes, rb, dialled, started>>
    /\ LoopFrame

RB_timer ==
    /\ blocked(rb)
    /\ rb' = timerFires(rb)
    /\ UNCHANGED <<poolVars, connVars, freeConns, ring, deadNodes, hc, dialled, started>>
    /\ LoopFrame

\* case <-tRB.C: c.rebuildNodes(), up to its copy of the dead set.
RB_case_tick == RB_start("fired")

\* getNodes fails in rebuildNodes: it returns and the timer is reset.
RB_getNodesErr ==
    /\ rb.pc = "fired"
    /\ rb' = [rb EXCEPT !.pc = "idle", !.err = "getNodes"]
    /\ started' = [started EXCEPT !.rb = IF ctxDone THEN @ + 1 ELSE @]
    /\ UNCHANGED <<poolVars, connVars, freeConns, ring, deadNodes, hc, dialled>>
    /\ LoopFrame

RB_case_done ==
    /\ doneReady(rb)
    /\ rb' = loopReturns(rb)
    /\ UNCHANGED <<poolVars, connVars, freeConns, ring, deadNodes, hc, dialled, started>>
    /\ LoopFrame

\* The steps of the two goroutines of initNodesProvider.
HCLoop ==
    \/ HC_case_tick \/ HC_getNodesErr \/ HC_case_done
    \/ HC_recheck \/ HC_ringNodes \/ HC_probe \/ HC_deadNodes \/ HC_remove

RBLoop ==
    \/ RB_case_tick \/ RB_getNodesErr \/ RB_case_done
    \/ RB_ring \/ RB_add \/ RB_remove \/ RB_refresh

\* A client made by newFromConfig with its two loops started, whose context
\* can be cancelled.
InitCancel ==
    /\ InitNodes
    /\ servers \subseteq Nodes

NextCancel == HCLoop \/ RBLoop \/ HC_timer \/ RB_timer \/ Cancel

\* The goroutines of the loops keep running; time passes or not.
SpecCancel == InitCancel /\ [][NextCancel]_vars /\ WF_vars(HCLoop) /\ WF_vars(RBLoop)

RingNodes == Nodes \cup {"n3"}
LookupKeys == 1..MaxLookupKeys
Hashes == 0..MaxHash

\* The strings the ring hashes: replicaRepr(nodeRepr, i), repr(v) and
\* innerRepr(v).
replicaRepr(nodeRepr, replicaNumber) == <<nodeRepr, replicaNumber>>
keyRepr(v) == <<"key", v>>
innerRepr(v) == <<"inner", v>>
HashArgs ==
    {replicaRepr(n, i) : n \in RingNodes, i \in 0..(RingReplicas - 1)}
        \cup {keyRepr(v) : v \in LookupKeys} \cup {innerRepr(v) : v \in LookupKeys}

\* NewCustomHashRing(replicas, fn)
NewCustomHashRing ==
    [replicas |-> RingReplicas, keys |-> <<>>, ring |-> [x \in Hashes |-> <<>>], nodes |-> {}]

\* sort.Search(len(keys), func(i) { return keys[i] >= hash }), from 1: the
\* least index with keys[index] >= hash, or Len(keys) + 1.
Search(keys, hash) ==
    IF \E i \in 1..Len(keys) : keys[i] >= hash
    THEN CHOOSE i \in 1..Len(keys) :
            keys[i] >= hash /\ \A j \in 1..(i - 1) : keys[j] < hash
    ELSE Len(keys) + 1

\* keys without its element at index
DeleteAt(keys, index) ==
    [i \in 1..(Len(keys) - 1) |-> IF i < index THEN keys[i] ELSE keys[i + 1]]

\* append(h.keys, hash) and the sort that ends AddWithReplicas
SortedInsert(keys, hash) ==
    LET index == Search(keys, hash) IN
    [i \in 1..(Len(keys) + 1) |->
        IF i < index THEN keys[i] ELSE IF i = index THEN hash ELSE keys[i - 1]]

\* removeRingNode: the nodes of the slot without those of the same repr; a
\* slot left empty is deleted from the map.
removeRingNode(ringMap, hash, nodeRepr) ==
    [ringMap EXCEPT ![hash] = SelectSeq(@, LAMBDA x : Repr(x) # nodeRepr)]

\* The loop of Remove from replica i.
RECURSIVE RemoveFrom(_, _, _, _)
RemoveFrom(h, hf, nodeRepr, i) ==
    IF i >= h.replicas THEN h
    ELSE LET hash == hf[replicaRepr(nodeRepr, i)]
             index == Search(h.keys, hash)
             keys == IF index <= Len(h.keys) /\ h.keys[index] = hash
                     THEN DeleteAt(h.keys, index) ELSE h.keys
         IN  RemoveFrom([h EXCEPT !.keys = keys,
                                  !.ring = removeRingNode(h.ring, hash, nodeRepr)],
                        hf, nodeRepr, i + 1)

\* HashRing.Remove
HashRing_Remove(h, hf, node) ==
    IF Repr(node) \notin h.nodes THEN h
    ELSE [RemoveFrom(h, hf, Repr(node), 0) EXCEPT !.nodes = @ \ {Repr(node)}]

\* The loop of AddWithReplicas from replica i.
RECURSIVE AddFrom(_, _, _, _, _)
AddFrom(h, hf, node, replicas, i) ==
    IF i >= replicas THEN h
    ELSE LET hash == hf[replicaRepr(Repr(node), i)] IN
         AddFrom([h EXCEPT !.keys = SortedInsert(@, hash),
                           !.ring = [@ EXCEPT ![hash] = Append(@, node)]],
                 hf, node, replicas, i + 1)

\* HashRing.AddWithReplicas
HashRing_AddWithReplicas(h, hf, node, replicas) ==
    LET h1 == HashRing_Remove(h, hf, node)
        r == IF replicas > h.replicas THEN h.replicas ELSE replicas
    IN  AddFrom([h1 EXCEPT !.nodes = @ \cup {Repr(node)}], hf, node, r, 0)

\* HashRing.Add
HashRing_Add(h, hf, node) == HashRing_AddWithReplicas(h, hf, node, h.replicas)

\* HashRing.AddWithWeight
HashRing_AddWithWeight(h, hf, node, weight) ==
    HashRing_AddWithReplicas(h, hf, node, (h.replicas * weight) \div TopWeight)

\* len(h.ring)
RingLen(h) == Cardinality({x \in Hashes : h.ring[x] # <<>>})

\* HashRing.Get: (node, true), (nil, false), or the panic of the division
\* by len(h.keys) = 0.
HashRing_Get(h, hf, v) ==
    IF RingLen(h) = 0 THEN [node |-> NoNode, ok |-> FALSE]
    ELSE IF Len(h.keys) = 0 THEN [node |-> "panic", ok |-> FALSE]
    ELSE LET hash == hf[keyRepr(v)]
             index == ((Search(h.keys, hash) - 1) % Len(h.keys)) + 1
             nodes == h.ring[h.keys[index]]
         IN  IF Len(nodes) = 0 THEN [node |-> NoNode, ok |-> FALSE]
             ELSE IF Len(nodes) = 1 THEN [node |-> nodes[1], ok |-> TRUE]
             ELSE [node |-> nodes[(hf[innerRepr(v)] % Len(nodes)) + 1], ok |-> TRUE]

\* The loop of newFromConfig over the nodes of getNodes, from index i.
RECURSIVE newFromConfigFrom(_, _, _, _)
newFromConfigFrom(h, hf, nodes, i) ==
    IF i > Len(nodes) THEN h
    ELSE newFromConfigFrom(HashRing_Add(h, hf, AddrRepr(nodes[i])), hf, nodes, i + 1)

\* What the ring actions leave alone.
RingFrame ==
    UNCHANGED <<poolVars, connVars, threadVars, out, freeConns, nextPool,
                maxIdleConns, fault, cpc, cn, err, call, sessVars, batchVars,
                nodeVars, hashFunc, codec, auxVars>>

\* newFromConfig with a list of servers: the ring of the client.
HR_newFromConfig ==
    /\ cfgServers = <<>>
    /\ hashRing = NewCustomHashRing
    /\ \E nodes \in SeqUpTo(Nodes, MaxServers) \ {<<>>} :
         /\ cfgServers' = nodes
         /\ hashRing' = newFromConfigFrom(hashRing, hashFunc, nodes, 1)
    /\ ring' = hashRing'.nodes
    /\ RingFrame

HR_Add ==
    /\ \E node \in RingNodes : hashRing' = HashRing_Add(hashRing, hashFunc, node)
    /\ ring' = hashRing'.nodes
    /\ UNCHANGED cfgServers
    /\ RingFrame

HR_AddWithWeight ==
    /\ \E node \in RingNodes, weight \in Weights :
         hashRing' = HashRing_AddWithWeight(hashRing, hashFunc, node, weight)
    /\ ring' = hashRing'.nodes
    /\ UNCHANGED cfgServers
    /\ RingFrame

HR_Remove ==
    /\ \E node \in RingNodes : hashRing' = HashRing_Remove(hashRing, hashFunc, node)
    /\ ring' = hashRing'.nodes
    /\ UNCHANGED cfgServers
    /\ RingFrame

\* A client without pools and requests, and a ring with any hash function.
InitRing ==
    /\ maxCap = [p \in Pools |-> 0]
    /\ permits = [p \in Pools |-> 0]
    /\ store = [p \in Pools |-> <<>>]
    /\ storeOpen = [p \in Pools |-> TRUE]
    /\ storeClose = [p \in Pools |-> FALSE]
    /\ hasNewConn = [p \in Pools |-> TRUE]
    /\ dialAddr = [p \in Pools |-> NoNode]
    /\ conn = [c \in Conns |-> NoConnRec]
    /\ nextConn = 1
    /\ ThreadInit("idle")
    /\ out = {}
    /\ freeConns = [n \in Nodes |-> NoPool]
    /\ nextPool = 1
    /\ maxIdleConns = 1
    /\ fault = NoFault
    /\ ring = {}
    /\ call = NoCall
    /\ authEnable = FALSE
    /\ authBig = FALSE
    /\ authed = [c \in Conns |-> FALSE]
    /\ wbuf = [c \in Conns |-> <<>>]
    /\ srvIn = [c \in Conns |-> <<>>]
    /\ srvOut = [c \in Conns |-> <<>>]
    /\ BatchInit
    /\ ProviderInit
    /\ hashRing = NewCustomHashRing
    /\ hashFunc \in [HashArgs -> Hashes]
    /\ cfgServers = <<>>
    /\ codec = NoCodec
    /\ AuxInit

NextRing == HR_Add \/ HR_AddWithWeight \/ HR_Remove

SpecRing == InitRing /\ [][NextRing]_vars

NextConfig == HR_newFromConfig

SpecConfig == InitRing /\ [][NextConfig]_vars

\* ========================================================= HashRing claims
\* C22 (as claimed): a single membership change moves only the keys it must,
\* for every hash function and every lookup key: after Remove(n) every key
\* whose owner was not n keeps its owner and no key is owned by n; after a
\* new node m is added (at any weight) every key is owned by its previous
\* owner or by m.
C22_MinimalTransfer ==
    [][\A v \in LookupKeys, n \in RingNodes :
         LET before == HashRing_Get(hashRing, hashFunc, v)
             after == HashRing_Get(hashRing', hashFunc, v)
         IN  /\ (n \in hashRing.nodes /\ hashRing' = HashRing_Remove(hashRing, hashFunc, n))
                  => /\ before.node # n => after = before
                     /\ after.node # n
             /\ (n \notin hashRing.nodes /\ n \in hashRing'.nodes)
                  => after.node \in {before.node, n}]_vars

\* C23 (as claimed): after any sequence of Add, AddWithWeight and Remove,
\* Get(v) returns (n, true) with n a current member for every lookup key v
\* whenever the member set is not empty, and (nil, false) only when it is
\* empty; a node removed and not added again is never returned.
C23_GetReturnsMember ==
    \A v \in LookupKeys :
        LET got == HashRing_Get(hashRing, hashFunc, v) IN
        IF hashRing.nodes # {}
        THEN got.ok /\ got.node \in hashRing.nodes
        ELSE got = [node |-> NoNode, ok |-> FALSE]

\* The virtual replicas node n holds on the ring.
RECURSIVE CountIn(_, _)
CountIn(q, n) == IF q = <<>> THEN 0 ELSE (IF Head(q) = n THEN 1 ELSE 0) + CountIn(Tail(q), n)

RECURSIVE ReplicasUpTo(_, _, _)
ReplicasUpTo(h, n, x) ==
    IF x < 0 THEN 0 ELSE CountIn(h.ring[x], n) + ReplicasUpTo(h, n, x - 1)

ReplicasOf(h, n) == ReplicasUpTo(h, n, MaxHash)

\* C24 (as claimed): when the server list given to InitFromEnv names a server
\* k times, it holds k times as many virtual replicas on the ring as a
\* server listed once.
C24_ProportionalWeight ==
    \A s, t \in Range(cfgServers) :
        CountIn(cfgServers, t) = 1
            => ReplicasOf(hashRing, AddrRepr(s))
                 = CountIn(cfgServers, s) * ReplicasOf(hashRing, AddrRepr(t))

\* ==================================================== binary protocol codec
\* Request and Response frames (requests.go, responses.go).  A byte is a
\* number in 0..255; a byte string is [b, z]: the bytes b followed by z zero
\* bytes (a body of make([]byte, n) is [b |-> <<>>, z |-> n]).  A 64-bit CAS is
\* the pair of its high and low 32-bit words.
BLen(s) == Len(s.b) + s.z
At(s, i) == IF i <= Len(s.b) THEN s.b[i] ELSE 0
\* Go's s[lo:hi] for 0 <= lo <= hi <= len(s), as explicit bytes.
Slice(s, lo, hi) == [i \in 1..(hi - lo) |-> At(s, lo + i)]
\* Go's s[lo:].
SliceFrom(s, lo) ==
    IF lo >= Len(s.b) THEN [b |-> <<>>, z |-> BLen(s) - lo]
    ELSE [b |-> SubSeq(s.b, lo + 1, Len(s.b)), z |-> s.z]
\* The first n bytes of s, n <= len(s).
TakeBytes(s, n) ==
    IF n <= Len(s.b) THEN [b |-> SubSeq(s.b, 1, n), z |-> 0]
    ELSE [b |-> s.b, z |-> n - Len(s.b)]
Concat(q, s) == [b |-> q \o s.b, z |-> s.z]

\* encoding/binary.BigEndian
PutUint16(x) == <<(x \div 256) % 256, x % 256>>
PutUint32(x) == <<(x \div 16777216) % 256, (x \div 65536) % 256, (x \div 256) % 256, x % 256>>
PutUint64(c) == PutUint32(c[1]) \o PutUint32(c[2])
Uint16(q, pos) == q[pos + 1] * 256 + q[pos + 2]
Uint32(q, pos) == ((q[pos + 1] * 256 + q[pos + 2]) * 256 + q[pos + 3]) * 256 + q[pos + 4]
Uint64(q, pos) == <<Uint32(q, pos), Uint32(q, pos + 4)>>

Size(r) == HDR_LEN + Len(r.Extras) + Len(r.Key) + BLen(r.Body)

\* fillHeaderBytes of a Request (magic REQ_MAGIC, vbucket 0) and of a Response
\* (magic RES_MAGIC, the status).
fillHeaderBytes(r, magic, vbucketOrStatus) ==
    <<magic, r.Opcode>>
    \o PutUint16(Len(r.Key) % 65536)
    \o <<Len(r.Extras) % 256, 0>>
    \o PutUint16(vbucketOrStatus)
    \o PutUint32(BLen(r.Body) + Len(r.Key) + Len(r.Extras))
    \o PutUint32(r.Opaque)
    \o (IF r.Cas # ZeroCas THEN PutUint64(r.Cas) ELSE <<0, 0, 0, 0, 0, 0, 0, 0>>)
    \o r.Extras
    \o r.Key

Request_Bytes(r) == Concat(fillHeaderBytes(r, REQ_MAGIC, 0), r.Body)
Response_Bytes(r) == Concat(fillHeaderBytes(r, RES_MAGIC, r.Status), r.Body)

\* io.ReadFull(rd, buf) with len(buf) = n on a reader holding rd.
ReadFull(rd, n) ==
    IF BLen(rd) >= n THEN [n |-> n, err |-> "nil", buf |-> TakeBytes(rd, n)]
    ELSE [n |-> BLen(rd),
          err |-> IF BLen(rd) = 0 THEN "EOF" ELSE "ErrUnexpectedEOF",
          buf |-> rd]

\* Request.Receive(rd, nil) on the receiver r.  The body length is computed
\* in uint32: below klen + elen the difference wraps around to more than
\* 2^32 - 65791, which is above MaxBodyLen.
Request_Receive(r, rd) ==
    LET h == ReadFull(rd, HDR_LEN) IN
    IF h.err # "nil" THEN Received(h.n, h.err, r)
    ELSE
    LET hdrBytes == Slice(h.buf, 0, HDR_LEN) IN
    IF hdrBytes[1] # RES_MAGIC /\ hdrBytes[1] # REQ_MAGIC THEN Received(h.n, "bad magic", r)
    ELSE
    LET klen == Uint16(hdrBytes, 2)
        elen == hdrBytes[5]
        total == Uint32(hdrBytes, 8)
        r1 == [r EXCEPT !.Opcode = hdrBytes[2]]
    IN
    IF total < klen + elen \/ total - klen - elen > MaxBodyLen
    THEN Received(h.n, "too big", r1)
    ELSE
    LET bodyLen == total - klen - elen
        r2 == [r1 EXCEPT !.Opaque = Uint32(hdrBytes, 12), !.Cas = Uint64(hdrBytes, 16)]
        m == ReadFull(SliceFrom(rd, HDR_LEN), klen + elen + bodyLen)
        buf == m.buf
    IN
    IF m.err # "nil" THEN Received(h.n + m.n, m.err, r2)
    ELSE Received(h.n + m.n, "nil",
            [r2 EXCEPT !.Extras = IF elen > 0 THEN Slice(buf, 0, elen) ELSE @,
                       !.Key = IF klen > 0 THEN Slice(buf, elen, klen + elen) ELSE @,
                       !.Body = IF klen + elen > 0 THEN SliceFrom(buf, klen + elen) ELSE @])

\* Response.Receive(rd, nil) on the receiver r.  bodyLen is an int and may be
\* negative; buf has klen+elen+bodyLen = total bytes, and a slice expression
\* beyond its capacity panics.
Response_Receive(r, rd) ==
    LET h == ReadFull(rd, HDR_LEN) IN
    IF h.err # "nil" THEN Received(h.n, h.err, r)
    ELSE
    LET hdrBytes == Slice(h.buf, 0, HDR_LEN) IN
    IF hdrBytes[1] # RES_MAGIC /\ hdrBytes[1] # REQ_MAGIC THEN Received(h.n, "bad magic", r)
    ELSE
    LET klen == Uint16(hdrBytes, 2)
        elen == hdrBytes[5]
        r1 == [r EXCEPT !.Opcode = hdrBytes[2], !.Status = Uint16(hdrBytes, 6),
                        !.Opaque = Uint32(hdrBytes, 12), !.Cas = Uint64(hdrBytes, 16)]
        bodyLen == Uint32(hdrBytes, 8) - (klen + elen)
        m == ReadFull(SliceFrom(rd, HDR_LEN), klen + elen + bodyLen)
        buf == m.buf
    IN
    IF m.err # "nil" THEN Received(h.n + m.n, m.err, r1)
    ELSE IF (elen > 0 /\ elen > BLen(buf)) \/ (klen > 0 /\ klen + elen > BLen(buf))
    THEN Received(h.n + m.n, "panic", r1)
    ELSE Received(h.n + m.n, "nil",
            [r1 EXCEPT !.Extras = IF elen > 0 THEN Slice(buf, 0, elen) ELSE @,
                       !.Key = IF klen > 0 THEN Slice(buf, elen, klen + elen) ELSE @,
                       !.Body = IF bodyLen > 0 THEN SliceFrom(buf, klen + elen) ELSE @])

\* ---- the frames and streams explored
ByteSamples == {0, 1, 255}
FieldBytes == SeqUpTo(ByteSamples, MaxField)
OpCodes == {0, 1, 34, 255}                 \* GET, SET, SASL_STEP and an unknown one
CasSamples == {ZeroCas, <<0, 1>>, <<1, 0>>}
OpaqueSamples == {0, 7242}
StatusSamples == {SUCCESS, KEY_ENOENT, UNKNOWN_COMMAND}
Requests ==
    [Opcode : OpCodes, Status : {0}, Opaque : OpaqueSamples, Cas : CasSamples,
     Extras : FieldBytes, Key : FieldBytes, Body : {Bs(q) : q \in FieldBytes}]
Responses ==
    [Opcode : OpCodes, Status : StatusSamples, Opaque : OpaqueSamples, Cas : CasSamples,
     Extras : FieldBytes, Key : FieldBytes, Body : {Bs(q) : q \in FieldBytes}]
\* Headers written by a peer: any magic, lengths that agree or not.
Magics == {REQ_MAGIC, RES_MAGIC, 131, 0}
TotalLens == {0, 1, 2, 3, MaxBodyLen, MaxBodyLen + 1, MaxBodyLen + 3}
RawHeader(magic, klen, elen, total) ==
    <<magic, 1>> \o PutUint16(klen) \o <<elen, 0>> \o PutUint16(0)
    \o PutUint32(total) \o PutUint32(7242) \o PutUint64(ZeroCas)
\* What follows the header on the stream: a few bytes, then zero bytes.
Streams == {[b |-> q, z |-> n] : q \in SeqUpTo({0, 1}, 2), n \in {0, MaxBodyLen + 3}}

CodecFrame ==
    UNCHANGED <<poolVars, connVars, threadVars, out, freeConns, nextPool,
                maxIdleConns, fault, cpc, cn, err, call, sessVars, batchVars,
                ring, nodeVars, hashVars, auxVars>>

\* req.Bytes() read back by Request{}.Receive (TestReceiveRequest).
Codec_Request ==
    /\ codec.op = "none"
    /\ \E r \in Requests :
         codec' = [op |-> "Request", sent |-> r, wire |-> Request_Bytes(r),
                   got |-> Request_Receive(NoFrame, Request_Bytes(r))]
    /\ CodecFrame

\* res.Bytes() read back by Response{}.Receive.
Codec_Response ==
    /\ codec.op = "none"
    /\ \E r \in Responses :
         codec' = [op |-> "Response", sent |-> r, wire |-> Response_Bytes(r),
                   got |-> Response_Receive(NoFrame, Response_Bytes(r))]
    /\ CodecFrame

\* Request{}.Receive on a stream a peer wrote.
Codec_rawRequest ==
    /\ codec.op = "none"
    /\ \E magic \in Magics, klen \in 0..MaxField, elen \in 0..MaxField,
          total \in TotalLens, s \in Streams :
         LET wire == Concat(RawHeader(magic, klen, elen, total), s) IN
         codec' = [op |-> "rawRequest", sent |-> NoFrame, wire |-> wire,
                   got |-> Request_Receive(NoFrame, wire)]
    /\ CodecFrame

\* Response{}.Receive on a stream a peer wrote.
Codec_rawResponse ==
    /\ codec.op = "none"
    /\ \E magic \in Magics, klen \in 0..MaxField, elen \in 0..MaxField,
          total \in TotalLens, s \in Streams :
         LET wire == Concat(RawHeader(magic, klen, elen, total), s) IN
         codec' = [op |-> "rawResponse", sent |-> NoFrame, wire |-> wire,
                   got |-> Response_Receive(NoFrame, wire)]
    /\ CodecFrame

InitCodec ==
    /\ maxCap = [p \in Pools |-> 0]
    /\ permits = [p \in Pools |-> 0]
    /\ store = [p \in Pools |-> <<>>]
    /\ storeOpen = [p \in Pools |-> TRUE]
    /\ storeClose = [p \in Pools |-> FALSE]
    /\ hasNewConn = [p \in Pools |-> TRUE]
    /\ dialAddr = [p \in Pools |-> NoNode]
    /\ conn = [c \in Conns |-> NoConnRec]
    /\ nextConn = 1
    /\ ThreadInit("idle")
    /\ out = {}
    /\ freeConns = [n \in Nodes |-> NoPool]
    /\ nextPool = 1
    /\ maxIdleConns = 1
    /\ fault = NoFault
    /\ ring = {}
    /\ call = NoCall
    /\ authEnable = FALSE
    /\ authBig = FALSE
    /\ authed = [c \in Conns |-> FALSE]
    /\ wbuf = [c \in Conns |-> <<>>]
    /\ srvIn = [c \in Conns |-> <<>>]
    /\ srvOut = [c \in Conns |-> <<>>]
    /\ BatchInit
    /\ NodesInit

NextCodec == Codec_Request \/ Codec_Response \/ Codec_rawRequest \/ Codec_rawResponse

SpecCodec == InitCodec /\ [][NextCodec]_vars

\* The header fields of the stream decoded.
WireMagic == At(codec.wire, 1)
WireKeyLen == At(codec.wire, 3) * 256 + At(codec.wire, 4)
WireExtrasLen == At(codec.wire, 5)
WireTotalLen == Uint32(Slice(codec.wire, 8, 12), 0)

\* C25 (as claimed): encoding then decoding is the identity on frames: for
\* every Request and every Response, with any opcode, cas, opaque, extras, key
\* and body (also empty extras and key with a body), Receive applied to
\* Bytes() succeeds, consumes exactly Size() bytes and yields the fields of
\* the original.
C25_RoundTrip ==
    codec.op \in {"Request", "Response"}
        => /\ codec.got.err = "nil"
           /\ codec.got.n = Size(codec.sent)
           /\ codec.got.r = codec.sent

\* C25, the part that holds: the round trip of every Response, and of every
\* Request that has extras or a key or no body.
C25_RoundTripWithHeaderFields ==
    /\ codec.op = "Response" => C25_RoundTrip
    /\ (codec.op = "Request"
          /\ (codec.sent.Extras # <<>> \/ codec.sent.Key # <<>> \/ BLen(codec.sent.Body) = 0))
         => C25_RoundTrip

\* C26 (as claimed): decoding a response returns an error, without a panic
\* and without giving a response as valid, whenever the magic of the header is
\* neither 0x80 nor 0x81, or total_body_len is smaller than key_len +
\* extras_len, or total_body_len is above 22 MB.
C26_RejectsBadFrames ==
    (/\ codec.op = "rawResponse"
     /\ \/ WireMagic \notin {REQ_MAGIC, RES_MAGIC}
        \/ WireTotalLen < WireKeyLen + WireExtrasLen
        \/ WireTotalLen > MaxBodyLen)
        => codec.got.err \notin {"nil", "panic"}

\* C26, the part that holds: a header with a magic other than 0x80 and 0x81
\* is rejected by both decoders, and Request.Receive rejects a body above
\* MaxBodyLen and a total length below key and extras.
C26_BadMagicRejected ==
    /\ (codec.op \in {"rawRequest", "rawResponse"} /\ WireMagic \notin {REQ_MAGIC, RES_MAGIC})
         => codec.got.err = "bad magic"
    /\ (codec.op = "rawRequest" /\ WireMagic \in {REQ_MAGIC, RES_MAGIC}
          /\ (WireTotalLen < WireKeyLen + WireExtrasLen
                \/ WireTotalLen - WireKeyLen - WireExtrasLen > MaxBodyLen))
         => codec.got.err = "too big"

\* ======================================================= one tick at a time
\* The ticks of the two loops without interleaving: the timer of a loop fires
\* while the other loop waits in its select.  The client has made requests
\* before: some addresses have a pool in freeConns, one with an idle
\* connection.
\* The lookup of the headless service gives another list of addresses.
Lookup_change ==
    /\ hc.pc = "idle" /\ rb.pc = "idle"
    /\ changes < MaxChanges
    /\ servers \subseteq Nodes
    /\ \E l \in SUBSET Nodes \ {{}, servers} : servers' = l
    /\ changes' = changes + 1
    /\ UNCHANGED <<poolVars, connVars, threadVars, out, freeConns, nextPool,
                   maxIdleConns, fault, cpc, cn, err, ring, call, sessVars, batchVars,
                   reach, deadNodes, hc, rb, ctxDone, dialled, started, hashVars, codec, auxVars>>

\* The pool of address n when the addresses of the set pooled have one.
PoolIx(pooled, n) ==
    IF n \notin pooled THEN NoPool
    ELSE IF n = "n1" \/ "n1" \notin pooled THEN 1 ELSE 2

InitTicks ==
    /\ \E pooled \in SUBSET Nodes, idle \in BOOLEAN :
         /\ freeConns = [n \in Nodes |-> PoolIx(pooled, n)]
         /\ nextPool = Cardinality(pooled) + 1
         /\ maxCap = [p \in Pools |-> IF p <= Cardinality(pooled) THEN 1 ELSE 0]
         /\ dialAddr = [p \in Pools |->
                          IF \E n \in pooled : PoolIx(pooled, n) = p
                          THEN CHOOSE n \in pooled : PoolIx(pooled, n) = p
                          ELSE NoNode]
         /\ store = [p \in Pools |-> IF p = 1 /\ pooled # {} /\ idle THEN <<1>> ELSE <<>>]
         /\ permits = [p \in Pools |->
                         IF p > Cardinality(pooled) THEN 0
                         ELSE IF p = 1 /\ idle THEN 0 ELSE 1]
         /\ conn = [c \in Conns |->
                      IF c = 1 /\ pooled # {} /\ idle
                      THEN [st |-> "open", healthy |-> TRUE, nClose |-> 0,
                            addr |-> CHOOSE n \in pooled : PoolIx(pooled, n) = 1,
                            pool |-> 1]
                      ELSE NoConnRec]
         /\ nextConn = IF pooled # {} /\ idle THEN 2 ELSE 1
    /\ storeOpen = [p \in Pools |-> TRUE]
    /\ storeClose = [p \in Pools |-> FALSE]
    /\ hasNewConn = [p \in Pools |-> TRUE]
    /\ ThreadInit("idle")
    /\ out = {}
    /\ maxIdleConns = 1
    /\ fault = NoFault
    /\ call = NoCall
    /\ authEnable = FALSE
    /\ authBig = FALSE
    /\ authed = [c \in Conns |-> FALSE]
    /\ wbuf = [c \in Conns |-> <<>>]
    /\ srvIn = [c \in Conns |-> <<>>]
    /\ srvOut = [c \in Conns |-> <<>>]
    /\ BatchInit
    /\ servers \in SUBSET ServerStrings \ {{}}
    /\ ring = {AddrRepr(s) : s \in servers}
    /\ reach \in [Nodes -> {"ok", "refused", "timeout"}]
    /\ changes = 0
    /\ deadNodes = {}
    /\ hc = HCIdle
    /\ rb = RBIdle
    /\ ctxDone = FALSE
    /\ dialled = {}
    /\ started = [hc |-> 0, rb |-> 0]
    /\ HashRingInit
    /\ codec = NoCodec
    /\ AuxInit

\* The timer of a loop fires while the other loop waits in its select, and
\* the network changes between ticks.
HC_timer_alone == rb.pc = "idle" /\ HC_timer
RB_timer_alone == hc.pc = "idle" /\ RB_timer
Net_change_between == hc.pc = "idle" /\ rb.pc = "idle" /\ Net_change

NextTicks ==
    \/ HC_timer_alone
    \/ HC_case_tick \/ HC_getNodesErr
    \/ HC_recheck \/ HC_ringNodes \/ HC_probe \/ HC_deadNodes \/ HC_remove
    \/ RB_timer_alone
    \/ RB_case_tick \/ RB_getNodesErr
    \/ RB_ring \/ RB_add \/ RB_remove \/ RB_refresh
    \/ Net_change_between
    \/ Lookup_change

SpecTicks == InitTicks /\ [][NextTicks]_vars

\* checkNodesHealth returns in this step, after a successful getNodes.
HC_completes == hc.pc \in {"probe", "remove"} /\ hc'.pc = "idle"

\* rebuildNodes returns in this step, after a successful getNodes.
RB_completes == rb.pc = "update" /\ rb'.pc = "idle"

\* The endpoint a string names.
Endpoints(S) == {AddrRepr(s) : s \in S}

\* C27 (as claimed): when a health-check tick completes, every node of the
\* dead set of that moment, a node found unreachable in this very tick
\* included, is absent from the ring and has no pool in the pool map.
C27_DeadNodesRemoved ==
    [][HC_completes =>
         \A d \in deadNodes' :
             /\ AddrRepr(d) \notin ring'
             /\ freeConns'[AddrRepr(d)] = NoPool]_vars

\* C27, the part that holds: the nodes that were in the dead set when the
\* tick began are absent from the ring and have no pool when it completes.
C27_SnapshotRemoved ==
    [][HC_completes =>
         \A d \in hc.deadNodes :
             /\ AddrRepr(d) \notin ring'
             /\ freeConns'[AddrRepr(d)] = NoPool]_vars

\* C28 (as claimed): a health-check tick with dead set D0, ring members G0
\* and resolved list L leaves the dead set {d in D0 : the endpoint of d is in
\* L and its probe fails} united with {n in G0 minus D0 : the probe of n
\* fails}, membership in L judged on the canonical endpoint.
C28_DeadSetAfterTick ==
    [][HC_completes =>
         deadNodes' =
             {d \in hc.deadNodes :
                  AddrRepr(d) \in Endpoints(hc.currentNodes) /\ nodeIsDead(d)}
             \cup {Repr(n) : n \in {a \in hc.ringNodes : nodeIsDead(a)}}]_vars

\* C28, the part that holds: the same with server strings that are their own
\* canonical form.
C28_CanonicalDeadSet ==
    [][(HC_completes /\ hc.currentNodes \subseteq Nodes) =>
         deadNodes' =
             {d \in hc.deadNodes : d \in hc.currentNodes /\ nodeIsDead(d)}
             \cup {Repr(n) : n \in {a \in hc.ringNodes : nodeIsDead(a)}}]_vars

\* C29 (as claimed): after a rebuild tick with a successful resolution the
\* members of the ring are the canonical endpoints of the resolved list
\* without the dead set, whether the server strings are canonical addresses
\* or host names.
C29_RingAfterRebuild ==
    [][RB_completes => ring' = Endpoints(servers) \ Endpoints(deadNodes)]_vars

\* C29, the part that holds: the same with server strings that are their own
\* canonical form.
C29_CanonicalRebuild ==
    [][(RB_completes /\ servers \subseteq Nodes) => ring' = servers \ deadNodes]_vars

\* C30: in a tick whose getNodes failed no step of the loop dials, and the
\* ring, the dead set and every pool stay exactly as they were.
C30_FailedResolutionChangesNothing ==
    [][((hc' # hc /\ hc'.err # "nil") \/ (rb' # rb /\ rb'.err # "nil"))
          => /\ dialled' = dialled
             /\ ring' = ring
             /\ deadNodes' = deadNodes
             /\ freeConns' = freeConns
             /\ UNCHANGED <<poolVars, connVars>>]_vars

\* Both loops have had a tick whose getNodes failed, with members on the
\* ring, dead nodes and a pool with an idle connection at stake.
C30_Witness ==
    /\ hc.pc = "idle" /\ hc.err # "nil"
    /\ rb.pc = "idle" /\ rb.err # "nil"
    /\ ring # {}
    /\ deadNodes # {}
    /\ \E n \in Nodes : freeConns[n] # NoPool /\ store[freeConns[n]] # <<>>

\* ================================================================== locks
\* The three reader/writer locks: h.lock of the ring, c.fmu of the pool map
\* and c.dmu of the dead set.  A goroutine is the list of the lock operations
\* its code still has to make; a sync.RWMutex admits no new reader once a
\* writer has called Lock.
LockNames == {"hr", "fmu", "dmu"}
Goroutines == {"user", "closer", "hc", "hcg", "rb"}

\* defer-style sections: RLock ... RUnlock and Lock ... Unlock.
RSection(l) == <<<<"RLock", l>>, <<"RUnlock", l>>>>
WSection(l) == <<<<"Lock", l>>, <<"Unlock", l>>>>

Locks_safeGetFreeConn == RSection("fmu")
Locks_safeGetOrInitFreeConn == WSection("fmu")
Locks_freeConnsIsNil == RSection("fmu")
\* (mutant) removeFromFreeConns looking the pool up after c.fmu.Lock()
Locks_removeFromFreeConns_nested ==
    Locks_freeConnsIsNil \o <<<<"Lock", "fmu">>>> \o Locks_safeGetFreeConn \o <<<<"Unlock", "fmu">>>>
Locks_removeFromFreeConns ==
    Locks_freeConnsIsNil \o Locks_safeGetFreeConn \o WSection("fmu")
Locks_CloseAllConns == WSection("fmu")
Locks_CloseAvailableConns == WSection("fmu")
Locks_hrGet == RSection("hr")
Locks_GetAllNodes == RSection("hr")
Locks_GetNodesCount == RSection("hr")
Locks_hrRemove == WSection("hr")
\* AddWithReplicas: h.Remove(node), then h.lock.Lock().
Locks_hrAdd == Locks_hrRemove \o WSection("hr")
Locks_safeGetDeadNodes == RSection("dmu")
Locks_safeAddToDeadNodes == WSection("dmu")
Locks_safeRemoveFromDeadNodes == WSection("dmu")

\* A single-key operation: hr.Get, getFreeConn, condRelease (release and close
\* both look the pool up).
Locks_singleKey == Locks_hrGet \o Locks_safeGetOrInitFreeConn \o Locks_safeGetFreeConn
\* A batch operation on two keys of one node: getNodesForKeys, getFreeConn,
\* condRelease.
Locks_batch ==
    Locks_GetNodesCount \o Locks_hrGet \o Locks_hrGet
    \o Locks_safeGetOrInitFreeConn \o Locks_safeGetFreeConn
\* FlushAll on one node.
Locks_FlushAll == Locks_GetAllNodes \o Locks_safeGetOrInitFreeConn \o Locks_safeGetFreeConn
\* checkNodesHealth with one node rechecked, one probed and one removed.
Locks_checkNodesHealth ==
    Locks_safeGetDeadNodes \o Locks_safeRemoveFromDeadNodes \o Locks_GetAllNodes
    \o Locks_safeAddToDeadNodes \o Locks_hrRemove \o Locks_removeFromFreeConns
\* rebuildNodes with one node added and one removed.
Locks_rebuildNodes ==
    Locks_safeGetDeadNodes \o Locks_GetAllNodes \o Locks_hrAdd \o Locks_hrRemove
    \o Locks_CloseAvailableConns

\* What each goroutine runs: user calls, CloseAllConns next to another user
\* call, the two loops, and a second goroutine of checkNodesHealth.
Routines(g) ==
    CASE g = "user" -> {Locks_singleKey, Locks_batch, Locks_FlushAll}
      [] g = "closer" -> {Locks_CloseAllConns, Locks_singleKey}
      [] g = "hc" -> {Locks_checkNodesHealth}
      [] g = "hcg" -> {Locks_safeAddToDeadNodes, Locks_safeRemoveFromDeadNodes}
      [] g = "rb" -> {Locks_rebuildNodes}

LockFrame ==
    UNCHANGED <<poolVars, connVars, threadVars, out, freeConns, nextPool,
                maxIdleConns, fault, cpc, cn, err, call, sessVars, batchVars,
                ring, nodeVars, hashVars, codec,
                opaque, probe, disableRefreshConns, refreshed>>

NextOp(g) == Head(lockSt.todo[g])
Advance(g) == [lockSt.todo EXCEPT ![g] = Tail(@)]
FreeLock(l) == lockSt.held[l].w = NoGoroutine /\ lockSt.held[l].r = {}
\* Goroutines that have called Lock on l and wait for it.
PendingWriters(l) ==
    {g \in Goroutines : lockSt.todo[g] # <<>> /\ NextOp(g) = <<"LockPending", l>>}

\* A goroutine begins one of its routines.
Lk_begin(g) ==
    /\ lockSt.todo[g] = <<>>
    /\ \E r \in Routines(g) : lockSt' = [lockSt EXCEPT !.todo[g] = r]
    /\ LockFrame

\* mu.Lock() is called: taken at once when the lock is free, else the
\* goroutine waits as a pending writer.
Lk_Lock(g) ==
    /\ lockSt.todo[g] # <<>>
    /\ NextOp(g)[1] = "Lock"
    /\ LET l == NextOp(g)[2] IN
       lockSt' = IF FreeLock(l)
                 THEN [held |-> [lockSt.held EXCEPT ![l].w = g], todo |-> Advance(g)]
                 ELSE [lockSt EXCEPT !.todo[g] = <<<<"LockPending", l>>>> \o Tail(@)]
    /\ LockFrame

\* A pending writer gets the lock.
Lk_LockPending(g) ==
    /\ lockSt.todo[g] # <<>>
    /\ NextOp(g)[1] = "LockPending"
    /\ FreeLock(NextOp(g)[2])
    /\ lockSt' = [held |-> [lockSt.held EXCEPT ![NextOp(g)[2]].w = g], todo |-> Advance(g)]
    /\ LockFrame

Lk_Unlock(g) ==
    /\ lockSt.todo[g] # <<>>
    /\ NextOp(g)[1] = "Unlock"
    /\ lockSt' = [held |-> [lockSt.held EXCEPT ![NextOp(g)[2]].w = NoGoroutine],
                  todo |-> Advance(g)]
    /\ LockFrame

\* mu.RLock(): blocks while a writer holds the lock or waits for it.
Lk_RLock(g) ==
    /\ lockSt.todo[g] # <<>>
    /\ NextOp(g)[1] = "RLock"
    /\ LET l == NextOp(g)[2] IN
       /\ lockSt.held[l].w = NoGoroutine
       /\ PendingWriters(l) = {}
       /\ lockSt' = [held |-> [lockSt.held EXCEPT ![l].r = @ \cup {g}], todo |-> Advance(g)]
    /\ LockFrame

Lk_RUnlock(g) ==
    /\ lockSt.todo[g] # <<>>
    /\ NextOp(g)[1] = "RUnlock"
    /\ lockSt' = [held |-> [lockSt.held EXCEPT ![NextOp(g)[2]].r = @ \ {g}],
                  todo |-> Advance(g)]
    /\ LockFrame

NextLocks ==
    \E g \in Goroutines :
        \/ Lk_begin(g)
        \/ Lk_Lock(g)
        \/ Lk_LockPending(g)
        \/ Lk_Unlock(g)
        \/ Lk_RLock(g)
        \/ Lk_RUnlock(g)

SpecLocks == InitCodec /\ [][NextLocks]_vars

\* The locks goroutine g holds.
HeldBy(g) == {l \in LockNames : lockSt.held[l].w = g \/ g \in lockSt.held[l].r}

\* The goroutines g waits for: the holders of the lock it has asked for, and
\* for a reader also the writers waiting before it.
WaitsFor(g) ==
    IF lockSt.todo[g] = <<>> THEN {}
    ELSE LET l == NextOp(g)[2] IN
         CASE NextOp(g)[1] \in {"Lock", "LockPending"} ->
                  ({lockSt.held[l].w} \cup lockSt.held[l].r) \ {NoGoroutine}
           [] NextOp(g)[1] = "RLock" ->
                  ({lockSt.held[l].w} \cup PendingWriters(l)) \ {NoGoroutine}
           [] OTHER -> {}

\* The goroutines g waits for, directly or through others.
RECURSIVE WaitClosure(_)
WaitClosure(S) ==
    LET T == S \cup UNION {WaitsFor(g) : g \in S} IN
    IF T = S THEN S ELSE WaitClosure(T)

CyclicWait == \E g \in Goroutines : \E h \in WaitsFor(g) : g \in WaitClosure({h})

\* C31: no goroutine, of a user call or of either loop, ever holds more than
\* one of the ring lock, the pool-map lock and the dead-set lock, and no cyclic
\* wait among the goroutines is reachable.
C31_OneLockAtATime ==
    /\ \A g \in Goroutines : Cardinality(HeldBy(g)) <= 1
    /\ ~CyclicWait

\* The three locks are held by three goroutines, a loop among them, while
\* other goroutines wait for a lock.
C31_Witness ==
    /\ \A l \in LockNames : ~FreeLock(l)
    /\ lockSt.held["fmu"].w = "hc"
    /\ \E g \in Goroutines :
         lockSt.todo[g] # <<>> /\ NextOp(g)[1] = "LockPending" /\ WaitsFor(g) # {}
    /\ \E g \in Goroutines : lockSt.todo[g] # <<>> /\ NextOp(g)[1] = "RLock" /\ WaitsFor(g) # {}

\* ===================================================== batch framing claims
\* Goroutine t works on a partition of a batch operation on its connection.
InPartition(t) == ~IsSingle /\ task[t].node # "none" /\ cn[t] # NoConn

\* The requests a partition with the keys ks writes: one quiet request per
\* key, in the order of the keys, and then one NOOP.
IsBatchFrame(t, w) ==
    LET ks == TaskKeys(t) IN
    /\ Len(w) = Len(ks) + 1
    /\ \A i \in 1..Len(ks) :
         /\ w[i].op = quietCode(call.op)
         /\ w[i].key = ks[i]
         /\ w[i].opaque \in DOMAIN task[t].idToKey
         /\ task[t].idToKey[w[i].opaque] = ks[i]
    /\ \A i, j \in 1..Len(w) : w[i].opaque = w[j].opaque => i = j
    /\ w[Len(w)].op = "NOOP"
    /\ w[Len(w)].opaque = task[t].opaqueNOOP
    /\ Cardinality(DOMAIN task[t].idToKey) = Len(ks)

\* Nothing of a batch is left on connection c: no response to read, no
\* request the server has yet to answer, nothing in the write buffer.
NothingUnread(c) == srvOut[c] = <<>> /\ srvIn[c] = <<>> /\ wbuf[c] = <<>>

\* The connections of the batch operation that are back in a pool.
ReturnedConns == {c \in Conns : \E p \in Pools : c \in Idle(p)}

\* C32 (state part): when a partition is about to flush, its write buffer
\* holds exactly one quiet request per key, each with an opaque of its own
\* that idToKey maps to the key, followed by exactly one NOOP with its own
\* opaque; and a connection that is back in the pool after a batch operation
\* has no response of the batch left unread.
C32_FramedAndDrained ==
    /\ \A t \in Threads :
         (InPartition(t) /\ cpc[t] = "b_flush") => IsBatchFrame(t, wbuf[cn[t]])
    /\ \A c \in ReturnedConns : NothingUnread(c)

\* C32 (step part): the reading loop of a partition ends without a fatal
\* error exactly at the response whose opcode is NOOP and whose opaque is
\* the NOOP's opaque, and ends with every response of the batch read.
C32_StopsAtSentinel ==
    \A t \in Threads :
        (InPartition(t) /\ cpc[t] = "b_read" /\ cpc'[t] = "condRelease"
           /\ ~isFatal(err'[t]))
          => /\ srvOut[cn[t]] # <<>>
             /\ Head(srvOut[cn[t]]).op = "NOOP"
             /\ Head(srvOut[cn[t]]).opaque = task[t].opaqueNOOP
             /\ NothingUnread(cn[t])'

\* C32: in each batch partition the client writes one quiet request per key
\* with a fresh opaque recorded in the opaque-to-key table, then one NOOP
\* with its own opaque, then flushes; it reads the responses in order and
\* stops exactly at the answer to the NOOP, so a connection returned to the
\* pool after a batch has no response of that batch left unread.
C32_BatchFraming == []C32_FramedAndDrained /\ [][C32_StopsAtSentinel]_vars

\* C32 witness: a MultiGet of two keys that live on one node has returned
\* without an error, both keys were answered, and the connection of the
\* partition is back in the pool.
C32_Witness ==
    /\ call.op = "MultiGet"
    /\ call.phase = "returned"
    /\ Len(call.keys) = 2
    /\ Cardinality(DOMAIN call.nodes) = 1
    /\ Cardinality(answered) = 2
    /\ ReturnedConns # {}
    /\ \A c \in ReturnedConns : NothingUnread(c)

\* The flush of goroutine t's partition has just failed.
FlushFailed(t) ==
    InPartition(t) /\ cpc[t] = "b_flush" /\ cpc'[t] # "b_flush" /\ err'[t] # NilErr

\* C33 (as claimed): in MultiGet, MultiStore and MultiDelete, when the flush
\* of a partition's pipelined requests fails, the partition stops without
\* reading any response: its next step is the deferred condRelease, which
\* destroys the connection and does not return it to the pool.
C33_FlushResultChecked ==
    [][\A t \in Threads :
         FlushFailed(t) => /\ cpc'[t] = "condRelease"
                           /\ ~condReleaseTest(err'[t], conn'[cn[t]].healthy)]_vars

\* ================================================== pool of a connection
\* After CloseAllConns the client stays usable: the goroutine that called it
\* goes on to call operations, which create the pools anew.
CloseAllConns_goOn(t) ==
    /\ cpc[t] = "closeAll_done"
    /\ pc[t] = "idle"
    /\ cpc' = [cpc EXCEPT ![t] = "idle"]
    /\ UNCHANGED <<poolVars, connVars, threadVars, out, freeConns, nextPool,
                   maxIdleConns, fault, cn, err, opVars>>

\* The operations of the client and CloseAllConns, any number of times.
NextRepool ==
    \/ NextCloseAll
    \/ \E t \in Threads : CloseAllConns_goOn(t)

SpecRepool == InitCloseAll /\ [][NextRepool]_vars

\* Goroutine t is inside Put(c) or Close(c) of a pool, called by release or
\* close of the connection.
InPutOrClose(t) ==
    pc[t] \in {"Put_check", "Put_send", "Close_release", "Close_closeConn"}

\* C34 (as claimed): a connection is only ever returned to (Put) or closed
\* against (Close) the pool that created it: when the pool of an address is
\* destroyed and a new pool is created for the address while a connection of
\* the old pool is in flight, the old connection is never enqueued in the new
\* pool and never releases a permit of the new pool: no pool has more free
\* permits than its capacity and no release panics.
C34_OwnPoolOnly ==
    /\ \A t \in Threads : InPutOrClose(t) => conn[arg[t]].pool = tp[t]
    /\ \A p \in Pools : \A c \in Idle(p) : conn[c].pool = p
    /\ \A p \in Pools : permits[p] <= maxCap[p]
    /\ \A t \in Threads : ~(pc[t] = "panic" /\ ret[t].e = "semaphore: released more than held")

\* ============================================ FlushAll: release of a member
\* The deferred condRelease of goroutine t's member runs in this step.
MemberReleases(t) == cpc[t] = "f_condRelease" /\ cpc'[t] = "idle"

\* Every call of goroutine t's own exchange returned nil: in this behaviour
\* no write and no flush fails, and the goroutine's last call returned nil.
OwnExchangeSucceeded(t) ==
    err[t] = NilErr /\ fault[1] \notin {"transmit", "flush"}

\* The last call of goroutine t's own exchange (its write, flush or read)
\* failed with an error that is fatal to the connection.
OwnExchangeFailed(t) == isFatal(err[t])

\* C35 (as claimed): in FlushAll, whether the connection of a member is
\* returned to the pool or destroyed depends only on the member's own
\* exchange, in every interleaving: a connection whose own write, flush and
\* read succeeded is returned to its pool, and a connection whose own write,
\* flush or read failed is destroyed.
C35_OwnOutcomeOnly ==
    [][\A t \in Threads :
         MemberReleases(t) =>
            /\ OwnExchangeSucceeded(t) => cn[t] \in Range(store'[PoolOf(cn[t])])
            /\ OwnExchangeFailed(t) => conn'[cn[t]].st = "closed"]_vars

\* ================================================ health tick: what it removes
\* The addresses a step takes out of the ring or whose pool it takes out of
\* the pool map.
RemovedByStep ==
    (ring \ ring') \cup {n \in Nodes : freeConns[n] # NoPool /\ freeConns'[n] = NoPool}

\* The dial probe of address a succeeded in the current run of
\* checkNodesHealth: the address was dialled and the dial got a connection.
ProbeSucceeded(a) == a \in dialled /\ reach[a] = "ok"

\* C36 (as claimed): a health-check tick never removes from the ring, and
\* never destroys the pool of, a node whose dial probe succeeded during that
\* same tick; only nodes that the tick leaves in the dead set are removed.
C36_ProbedAliveNotRemoved ==
    [][hc.pc = "remove" =>
         \A a \in RemovedByStep :
             /\ ~ProbeSucceeded(a)
             /\ Repr(a) \in deadNodes]_vars

\* ==================================================== hash ring structure
\* The replica counts AddWithReplicas is called with: none, fewer than
\* h.replicas, h.replicas, and more.
ReplicaArgs == 0..(RingReplicas + 1)

HR_AddWithReplicas ==
    /\ \E node \in RingNodes, replicas \in ReplicaArgs :
         hashRing' = HashRing_AddWithReplicas(hashRing, hashFunc, node, replicas)
    /\ ring' = hashRing'.nodes
    /\ UNCHANGED cfgServers
    /\ RingFrame

NextRingAll == HR_Add \/ HR_AddWithReplicas \/ HR_AddWithWeight \/ HR_Remove

SpecRingAll == InitRing /\ [][NextRingAll]_vars

\* The key array is sorted ascending, holds the hash of every slot as many
\* times as the slot holds nodes, and every node of a slot is a member.
RingWellFormed(h) ==
    /\ \A i, j \in 1..Len(h.keys) : i < j => h.keys[i] <= h.keys[j]
    /\ \A x \in Hashes : CountIn(h.keys, x) = Len(h.ring[x])
    /\ \A x \in Hashes : \A i \in 1..Len(h.ring[x]) : Repr(h.ring[x][i]) \in h.nodes

\* min(replicas, h.replicas)
Truncated(h, replicas) == IF replicas > h.replicas THEN h.replicas ELSE replicas

\* The step is an add of node n with some replica count, or its removal:
\* afterwards n holds the replicas of this add, or none, and every other
\* node holds the replicas it held.
MembershipStep(n) ==
    /\ \A r \in ReplicaArgs :
         hashRing' = HashRing_AddWithReplicas(hashRing, hashFunc, n, r)
            => /\ n \in hashRing'.nodes
               /\ ReplicasOf(hashRing', n) = Truncated(hashRing, r)
               /\ \A o \in RingNodes \ {n} :
                    ReplicasOf(hashRing', o) = ReplicasOf(hashRing, o)
    /\ hashRing' = HashRing_Remove(hashRing, hashFunc, n)
            => /\ n \notin hashRing'.nodes
               /\ ReplicasOf(hashRing', n) = 0
               /\ \A o \in RingNodes \ {n} :
                    ReplicasOf(hashRing', o) = ReplicasOf(hashRing, o)

\* C37 (as claimed): after any sequence of Add, AddWithReplicas,
\* AddWithWeight and Remove, for any hash function, collisions between
\* replicas of different nodes included: the key array is sorted ascending
\* and holds each slot's hash exactly as many times as the slot holds nodes;
\* no slot holds a non-member; every member holds exactly the replicas of
\* its latest add: an add leaves the node with the replicas of that add and
\* no operation on one node changes the replicas of another.
C37_RingWellFormed ==
    /\ []RingWellFormed(hashRing)
    /\ [][\A n \in RingNodes : MembershipStep(n)]_vars

\* ============================================================ getOpaque
\* 2^OpaqueBits and math.MaxUint32 at that width.
RECURSIVE Pow2(_)
Pow2(n) == IF n = 0 THEN 1 ELSE 2 * Pow2(n - 1)
OpaqueMod == Pow2(OpaqueBits)
MaxUint32 == OpaqueMod - 1

\* atomic.CompareAndSwapUint32 that swaps whatever the value is.
CompareAndSwapUint32_always(v, old, new) == new

\* atomic.CompareAndSwapUint32(addr, old, new): the value of *addr afterwards.
CompareAndSwapUint32(v, old, new) == IF v = old THEN new ELSE v

\* atomic.AddUint32(addr, delta): the new value, which wraps around.
AddUint32(v, delta) == (v + delta) % OpaqueMod

\* The goroutine that builds a batch partition, and the values a partition
\* draws: one per key and one for the NOOP.
Builder == CHOOSE g \in Threads : \A o \in Threads : g <= o
BatchDraws == MaxKeys + 1

\* What the steps of getOpaque leave alone.
OpaqueFrame ==
    UNCHANGED <<poolVars, connVars, threadVars, out, freeConns, nextPool,
                maxIdleConns, fault, cpc, cn, err, call, sessVars, batchVars,
                ring, nodeVars, hashVars, codec,
                lockSt, probe, disableRefreshConns, refreshed>>

\* A partition begins: its goroutine is about to draw its first opaque.
Opaque_batch ==
    /\ opaque.pc[Builder] = "idle"
    /\ opaque' = [opaque EXCEPT !.batch = <<>>, !.drawn = 0]
    /\ OpaqueFrame

\* getOpaque, first statement, by goroutine g:
\* atomic.CompareAndSwapUint32(c.opaque, math.MaxUint32, 0).  The builder
\* draws no more values than its partition needs.
GetOpaque_cas(g) ==
    /\ opaque.pc[g] = "idle"
    /\ opaque.drawn < OpaqueMod
    /\ g = Builder => Len(opaque.batch) < BatchDraws
    /\ opaque' = [opaque EXCEPT !.ctr = CompareAndSwapUint32(@, MaxUint32, 0),
                                !.pc[g] = "add"]
    /\ OpaqueFrame

\* getOpaque, second statement, by goroutine g:
\* return atomic.AddUint32(c.opaque, 1).
GetOpaque_add(g) ==
    LET v == AddUint32(opaque.ctr, 1) IN
    /\ opaque.pc[g] = "add"
    /\ opaque' = [opaque EXCEPT !.ctr = v,
                                !.pc[g] = "idle",
                                !.last = v,
                                !.drawn = @ + 1,
                                !.batch = IF g = Builder THEN Append(@, v) ELSE @]
    /\ OpaqueFrame

\* A client whose counter holds any value, with no requests and no pools.
InitOpaque ==
    /\ maxCap = [p \in Pools |-> 0]
    /\ permits = [p \in Pools |-> 0]
    /\ store = [p \in Pools |-> <<>>]
    /\ storeOpen = [p \in Pools |-> TRUE]
    /\ storeClose = [p \in Pools |-> FALSE]
    /\ hasNewConn = [p \in Pools |-> TRUE]
    /\ dialAddr = [p \in Pools |-> NoNode]
    /\ conn = [c \in Conns |-> NoConnRec]
    /\ nextConn = 1
    /\ ThreadInit("idle")
    /\ out = {}
    /\ freeConns = [n \in Nodes |-> NoPool]
    /\ nextPool = 1
    /\ maxIdleConns = 1
    /\ fault = NoFault
    /\ ring = {}
    /\ call = NoCall
    /\ authEnable = FALSE
    /\ authBig = FALSE
    /\ authed = [c \in Conns |-> FALSE]
    /\ wbuf = [c \in Conns |-> <<>>]
    /\ srvIn = [c \in Conns |-> <<>>]
    /\ srvOut = [c \in Conns |-> <<>>]
    /\ BatchInit
    /\ ProviderInit
    /\ HashRingInit
    /\ codec = NoCodec
    /\ LockInit
    /\ \E v \in 0..MaxUint32 : opaque = [NoOpaque EXCEPT !.ctr = v, !.last = v]
    /\ ProbeInit
    /\ RefreshInit

NextOpaque ==
    \/ Opaque_batch
    \/ \E g \in Threads : GetOpaque_cas(g)
    \/ \E g \in Threads : GetOpaque_add(g)

SpecOpaque == InitOpaque /\ [][NextOpaque]_vars

\* The opaques the partition has drawn are pairwise distinct as long as
\* fewer than MaxUint32 values were drawn, by any caller, since it began.
DistinctInBatch == opaque.drawn < MaxUint32 => NoDup(opaque.batch)

\* With the counter at its maximum the first statement of getOpaque sets it
\* to zero, and the second statement, run on the counter at zero, returns 1.
ResetAtMax ==
    \A g \in Threads :
        /\ (opaque.pc[g] = "idle" /\ opaque'.pc[g] = "add" /\ opaque.ctr = MaxUint32)
              => opaque'.ctr = 0
        /\ (opaque.pc[g] = "add" /\ opaque'.pc[g] = "idle" /\ opaque.ctr = 0)
              => opaque'.last = 1

\* C38: the opaque values allocated within one batch partition, one per key
\* and one for the NOOP, are pairwise distinct under any interleaving with
\* concurrent callers of getOpaque and across the wrap-around of the counter,
\* provided fewer than MaxUint32 values are drawn while the batch is built;
\* with the counter at its maximum a sequential call resets it to zero and
\* returns 1.
C38_OpaquesDistinct == []DistinctInBatch /\ [][ResetAtMax]_vars

\* C38 witness: the partition has drawn all its values while another caller
\* drew values in between, and the counter wrapped around while it did.
C38_Witness ==
    /\ Len(opaque.batch) = BatchDraws
    /\ opaque.drawn > BatchDraws
    /\ opaque.drawn < MaxUint32
    /\ opaque.batch[BatchDraws] < opaque.batch[1]
    /\ \E g \in Threads \ {Builder} : opaque.pc[g] = "add"

\* ============================================================ pool refresh
\* The pools of the pool map.
MapPools == {freeConns[n] : n \in Nodes} \ {NoPool}

\* closed: the calls of Pop that returned a connection, over all pools.
RECURSIVE ClosedIn(_, _)
ClosedIn(ps, numOfClose) ==
    IF ps = {} THEN 0
    ELSE LET p == CHOOSE q \in ps : TRUE IN
         Len(Popped(p, numOfClose)) + ClosedIn(ps \ {p}, numOfClose)

\* What a call of CloseAvailableConnsInAllShardPools leaves alone.
RefreshFrame ==
    UNCHANGED <<threadVars, out, freeConns, nextPool, maxIdleConns, fault, cpc, cn, err,
                call, sessVars, batchVars, ring, nodeVars, hashVars, codec,
                lockSt, opaque, probe, disableRefreshConns>>

\* The application calls CloseAvailableConnsInAllShardPools(numOfClose).
Refresh_call ==
    /\ refreshed.pc # "called"
    /\ \E numOfClose \in 0..(MaxCap + 1) :
         refreshed' = [pc |-> "called", numOfClose |-> numOfClose, closed |-> 0]
    /\ UNCHANGED <<poolVars, connVars>>
    /\ RefreshFrame

\* The call runs under fmu and returns closed.
Refresh_run ==
    /\ refreshed.pc = "called"
    /\ CloseAvailableConnsInAllShardPools(refreshed.numOfClose)
    /\ refreshed' = [refreshed EXCEPT !.pc = "returned",
                                      !.closed = ClosedIn(MapPools, refreshed.numOfClose)]
    /\ RefreshFrame

\* The elements of a set of connections, in ascending order.
RECURSIVE Ascending(_)
Ascending(S) ==
    IF S = {} THEN <<>>
    ELSE LET c == CHOOSE x \in S : \A y \in S : x <= y IN <<c>> \o Ascending(S \ {c})

\* Where a connection is when the call begins: never created, idle in the
\* store of a pool, or handed out by a pool.
Places == {<<"none", NoPool>>} \cup ({"idle", "out"} \X Pools)

\* A client with pools of capacity MaxCap for some addresses, whose
\* connections are idle or handed out, with pool refresh enabled or disabled,
\* and its rebuild loop waiting for its timer.
InitRefresh ==
    /\ \E pooled \in SUBSET Nodes \ {{}} :
       \E place \in [Conns -> Places] :
         LET Of(p) == {c \in Conns : place[c][2] = p}
             IdleOf(p) == {c \in Of(p) : place[c][1] = "idle"}
         IN
         /\ \A c \in Conns : place[c][2] \in {NoPool} \cup {PoolIx(pooled, n) : n \in pooled}
         /\ freeConns = [n \in Nodes |-> PoolIx(pooled, n)]
         /\ nextPool = Cardinality(pooled) + 1
         /\ maxCap = [p \in Pools |-> IF p <= Cardinality(pooled) THEN MaxCap ELSE 0]
         /\ dialAddr = [p \in Pools |->
                          IF \E n \in pooled : PoolIx(pooled, n) = p
                          THEN CHOOSE n \in pooled : PoolIx(pooled, n) = p
                          ELSE NoNode]
         /\ \A p \in Pools : Cardinality(Of(p)) <= MaxCap
         /\ store = [p \in Pools |-> Ascending(IdleOf(p))]
         /\ permits = [p \in Pools |->
                         IF p <= Cardinality(pooled) THEN MaxCap - token * Cardinality(Of(p))
                         ELSE 0]
         /\ conn = [c \in Conns |->
                      IF place[c][2] = NoPool THEN NoConnRec
                      ELSE [st |-> "open", healthy |-> TRUE, nClose |-> 0,
                            addr |-> dialAddr[place[c][2]], pool |-> place[c][2]]]
         /\ nextConn = MaxConns + 1
    /\ storeOpen = [p \in Pools |-> TRUE]
    /\ storeClose = [p \in Pools |-> FALSE]
    /\ hasNewConn = [p \in Pools |-> TRUE]
    /\ ThreadInit("idle")
    /\ out = {}
    /\ maxIdleConns = MaxCap
    /\ fault = NoFault
    /\ call = NoCall
    /\ authEnable = FALSE
    /\ authBig = FALSE
    /\ authed = [c \in Conns |-> FALSE]
    /\ wbuf = [c \in Conns |-> <<>>]
    /\ srvIn = [c \in Conns |-> <<>>]
    /\ srvOut = [c \in Conns |-> <<>>]
    /\ BatchInit
    /\ servers \in SUBSET Nodes \ {{}}
    /\ ring \in SUBSET Nodes
    /\ reach = [n \in Nodes |-> "ok"]
    /\ changes = 0
    /\ deadNodes = {}
    /\ hc = HCIdle
    /\ rb = RBIdle
    /\ ctxDone = FALSE
    /\ dialled = {}
    /\ started = [hc |-> 0, rb |-> 0]
    /\ HashRingInit
    /\ codec = NoCodec
    /\ LockInit
    /\ OpaqueInit
    /\ ProbeInit
    /\ disableRefreshConns \in BOOLEAN
    /\ refreshed = NoRefresh

NextRefresh ==
    \/ Refresh_call
    \/ Refresh_run
    \/ RB_timer
    \/ RB_case_tick \/ RB_getNodesErr
    \/ RB_ring \/ RB_add \/ RB_remove \/ RB_refresh

SpecRefresh == InitRefresh /\ [][NextRefresh]_vars

\* The connections that are idle in a pool of the pool map.
IdleConns == UNION {Range(store[p]) : p \in MapPools}

\* The connections the step closes.
ClosedByStep == {c \in Conns : conn[c].st = "open" /\ conn'[c].st = "closed"}

\* The step closes, in every pool of the map, exactly min(n, idle) idle
\* connections and releases one permit for each; it touches no connection
\* that is handed out and no other pool.
ClosesPerPool(n) ==
    /\ \A p \in MapPools :
         LET k == IF Len(store[p]) < n THEN Len(store[p]) ELSE n
             gone == Range(store[p]) \ Range(store'[p])
         IN /\ Len(store'[p]) = Len(store[p]) - k
            /\ Range(store'[p]) \subseteq Range(store[p])
            /\ Cardinality(gone) = k
            /\ gone \subseteq ClosedByStep
            /\ \A c \in Range(store'[p]) : conn'[c] = conn[c]
            /\ permits'[p] = permits[p] + token * k
    /\ \A c \in Conns \ IdleConns : conn'[c] = conn[c]
    /\ \A p \in Pools \ MapPools : store'[p] = store[p] /\ permits'[p] = permits[p]

ProbeNodes == {"n1", "h1", "wrongarrd.r"}

\* How a dial ends: a connection, a *ConnectTimeoutError, another error.
DialOutcomes == {"ok", "timeout", "refused"}

\* if countRetry < DefaultRetryCountForConn, with <= in place of <.
retryAllowed_le(countRetry) == countRetry <= DefaultRetryCountForConn

\* if countRetry < DefaultRetryCountForConn { countRetry++; continue }
retryAllowed(countRetry) == countRetry < DefaultRetryCountForConn

\* What the steps of nodeIsDead leave alone.
ProbeFrame ==
    UNCHANGED <<poolVars, connVars, threadVars, out, freeConns, nextPool,
                maxIdleConns, fault, cpc, cn, err, call, sessVars, batchVars,
                ring, nodeVars, hashVars, codec,
                lockSt, opaque, disableRefreshConns, refreshed>>

\* nodeIsDead(node) is called by goroutine g: utils.AddrRepr(utils.Repr(node));
\* with an error it returns true.
Probe_start(g) ==
    /\ probe[g].pc \in {"idle", "done"}
    /\ \E node \in ProbeNodes :
         probe' = [probe EXCEPT ![g] =
                     IF AddrRepr(Repr(node)) = AddrErr
                     THEN [NoProbe EXCEPT !.pc = "done", !.node = node, !.dead = TRUE]
                     ELSE [NoProbe EXCEPT !.pc = "dial", !.node = node]]
    /\ ProbeFrame

\* One turn of the loop: cn, err = c.dial(addr).  A timeout with retries
\* left: countRetry++ and the next turn; any other error, or a timeout
\* without retries left: return true; a connection: cn.Close(), break,
\* return false.
Probe_dial(g) ==
    /\ probe[g].pc = "dial"
    /\ \E o \in DialOutcomes :
         LET dials == Append(probe[g].dials, o) IN
         probe' = [probe EXCEPT ![g] =
                     IF o = "ok"
                     THEN [@ EXCEPT !.pc = "done", !.dials = dials, !.dead = FALSE,
                                    !.closes = @ + 1]
                     ELSE IF o = "timeout" /\ retryAllowed(probe[g].countRetry)
                     THEN [@ EXCEPT !.dials = dials, !.countRetry = @ + 1]
                     ELSE [@ EXCEPT !.pc = "done", !.dials = dials, !.dead = TRUE]]
    /\ ProbeFrame

\* A client whose health check is about to probe nodes, with no requests
\* and no pools.
InitProbe ==
    /\ maxCap = [p \in Pools |-> 0]
    /\ permits = [p \in Pools |-> 0]
    /\ store = [p \in Pools |-> <<>>]
    /\ storeOpen = [p \in Pools |-> TRUE]
    /\ storeClose = [p \in Pools |-> FALSE]
    /\ hasNewConn = [p \in Pools |-> TRUE]
    /\ dialAddr = [p \in Pools |-> NoNode]
    /\ conn = [c \in Conns |-> NoConnRec]
    /\ nextConn = 1
    /\ ThreadInit("idle")
    /\ out = {}
    /\ freeConns = [n \in Nodes |-> NoPool]
    /\ nextPool = 1
    /\ maxIdleConns = 1
    /\ fault = NoFault
    /\ ring = {}
    /\ call = NoCall
    /\ authEnable = FALSE
    /\ authBig = FALSE
    /\ authed = [c \in Conns |-> FALSE]
    /\ wbuf = [c \in Conns |-> <<>>]
    /\ srvIn = [c \in Conns |-> <<>>]
    /\ srvOut = [c \in Conns |-> <<>>]
    /\ BatchInit
    /\ NodesInit

NextProbe ==
    \/ \E g \in Threads : Probe_start(g)
    \/ \E g \in Threads : Probe_dial(g)

\* A goroutine inside nodeIsDead goes on with its loop.
SpecProbe ==
    InitProbe /\ [][NextProbe]_vars /\ \A g \in Threads : WF_vars(Probe_dial(g))

\* Every dial of the sequence but its last ended with a timeout.
TimeoutsBeforeLast(dials) == \A i \in 1..(Len(dials) - 1) : dials[i] = "timeout"

\* The last dial of a non-empty sequence.
LastDial(dials) == dials[Len(dials)]

\* What a call of nodeIsDead has done so far, and what it returns.
ProbeOk(pr) ==
    /\ Len(pr.dials) <= DefaultRetryCountForConn + 1
    /\ TimeoutsBeforeLast(pr.dials)
    /\ pr.pc = "dial" =>
         /\ \A i \in 1..Len(pr.dials) : pr.dials[i] = "timeout"
         /\ Len(pr.dials) <= DefaultRetryCountForConn
         /\ pr.closes = 0
    /\ pr.pc = "done" =>
         IF AddrRepr(Repr(pr.node)) = AddrErr
         THEN pr.dead /\ pr.dials = <<>> /\ pr.closes = 0
         ELSE /\ pr.dials # <<>>
              /\ pr.dead <=> LastDial(pr.dials) # "ok"
              /\ LastDial(pr.dials) = "timeout" => Len(pr.dials) = DefaultRetryCountForConn + 1
              /\ pr.closes = IF LastDial(pr.dials) = "ok" THEN 1 ELSE 0

\* C40: a liveness probe of a node dials at most 4 times: it dials again only
\* after a dial timeout and at most 3 times; it declares the node dead after
\* the fourth consecutive timeout or at once on the first other dial error,
\* alive on the first successful dial, whose connection it closes, and dead
\* without dialing when the address cannot be parsed; the probe always
\* terminates.
C40_ProbeBounded ==
    /\ [](\A g \in Threads : ProbeOk(probe[g]))
    /\ \A g \in Threads : (probe[g].pc = "dial") ~> (probe[g].pc = "done")

\* C40 witness: one probe has returned dead after four timeouts while
\* another has returned alive after a timeout and a successful dial, and
\* closed its connection.
C40_Witness ==
    \E g, o \in Threads :
        /\ probe[g].pc = "done" /\ probe[g].dead
        /\ probe[g].dials = <<"timeout", "timeout", "timeout", "timeout">>
        /\ probe[o].pc = "done" /\ ~probe[o].dead
        /\ probe[o].dials = <<"timeout", "ok">>
        /\ probe[o].closes = 1

=============================================================================
